---------------------------- MODULE Spec2Model ----------------------------
(***************************************************************************)
(* Model of the realtime-transcript-linux pipeline:                        *)
(*   - AudioCapture.capture_streaming_audio (audio_utils.py), the VAD      *)
(*     phrase segmenter;                                                   *)
(*   - ElevenLabsTranscriber.transcribe_audio / _transcribe_with_retry /   *)
(*     transcribe_streaming (elevenlabs_transcriber.py);                   *)
(*   - the AssemblyAI event handlers (assemblyai_transcriber.py);          *)
(*   - the progressive-injection callback _handle_transcription_result     *)
(*     (voice_transcription.py, voice_hybrid.py);                          *)
(*   - the command-line processes of voice_transcription.py (PID lock      *)
(*     file, stop marker) and the stop command of voice_hybrid.py.         *)
(*                                                                         *)
(* A frame is represented by its RMS volume, a text by the sequence of its *)
(* characters, a Python None-or-string by a record [ok, text].             *)
(***************************************************************************)
EXTENDS Integers, Sequences, FiniteSets, TLC

VARIABLES
    \* ---- AudioCapture.capture_streaming_audio ----
    cap_pc,             \* "idle" | "start" | "loop" | "after_loop" | "done"
    frame_count,        \* index of the next iteration of `for frame_count in range(max_frames)`
    all_frames,         \* all_frames
    phrase_frames,      \* phrase_frames
    silence_frames,     \* silence_frames
    recording_started,  \* recording_started
    stop_flag,          \* stop_flag['stop']
    stop_file,          \* existence of /tmp/voice_transcription_stop.flag
    callbacks,          \* every call callback(audio_chunk): [frames, path]
    exit_reason,        \* which exit the loop took
    read_errors,        \* number of stream.read exceptions so far
    stream,             \* the PyAudio input stream: "none" | "open" | "closed"
    \* ---- ElevenLabsTranscriber.transcribe_audio (one call) ----
    http_pc,            \* "idle" | "call" | "done"
    api_key,            \* whether self.api_key is set
    audio_in,           \* the audio_data argument
    script,             \* the backend's answer to the 1st, 2nd, 3rd request
    result,             \* return value of transcribe_audio
    requests,           \* number of requests.post calls issued
    sleeps,             \* the time.sleep arguments, in order
    \* ---- transcription session (text side) ----
    tx_pc,              \* "idle" | "session" | "connected" | "streaming" | "returned"
    engine,             \* "elevenlabs" | "assemblyai"
    full_text,          \* full_text (nonlocal of transcribe_streaming / self.full_text)
    committed,          \* texts appended to full_text, in order
    callback_log,       \* every call text_callback(phrase_text, full_text)
    injected,           \* every call TextInjector.inject_text(text)
    returned,           \* return value of transcribe_streaming
    is_streaming,       \* AssemblyAITranscriber.is_streaming
    remote,             \* remote AssemblyAI session: "connected" | "begun" | "closed"
    last_turn_time,     \* AssemblyAITranscriber.last_turn_time
    now,                \* time.time()
    stop_streaming,     \* AssemblyAITranscriber.stop_streaming: "none" | "clear" | "set"
    chunks_seen,        \* number of phrases handed to process_audio_chunk
    turns_seen,         \* number of turn events handled by on_turn
    chunk_replies,      \* how the backend answered each phrase given to process_audio_chunk
    \* ---- AssemblyAITranscriber.transcribe_streaming (threads and resources) ----
    monitor_pc,         \* timeout_monitor thread: "none" | "poll" | "cleanup" | "done"
    client,             \* the StreamingClient: "connected" | "disconnected"
    recorder_process,   \* the recorder subprocess: "none" | "running" | "terminated"
    recorder_cmd,       \* whether self._recorder_cmd is set
    start_time,         \* start_time of timeout_monitor
    frames_sent,        \* chunks yielded by audio_generator
    gen_pc,             \* audio_generator: "top" (loop test) | "reading" (in stdout.read)
    \* ---- HybridVoiceTranscriber.transcribe ----
    hyb_pc,             \* "idle" | "select" | "begin" | "primary" | "fallback" | "done"
    current_engine,     \* self.current_engine: "none" | "elevenlabs" | "whisper"
    hyb_api_key,        \* whether self.elevenlabs.api_key is set
    whisper_available,  \* self.whisper.is_available()
    current_language,   \* self.current_language
    hyb_stop_flag,      \* self.stop_flag['stop']
    hyb_stop_file,      \* existence of self.stop_file
    runs,               \* the engine sessions run, in order
    notifications,      \* the notifications shown, in order
    hyb_result,         \* how transcribe ended: "none" | "True" | "False" | "KeyboardInterrupt"
    \* ---- WhisperFallback._load_model ----
    load_pc,            \* position of each calling thread
    model_lock,         \* holder of self.model_lock (0: free)
    whisper_model,      \* whether self.whisper_model is set
    model_loaded,       \* self.model_loaded
    constructions,      \* number of WhisperModel(...) constructions
    load_result,        \* return value of each call: "none" | "True" | "False"
    \* ---- command-line processes of voice_transcription.py / voice_hybrid.py ----
    proc_pc,            \* position of each process in transcribe / stop_recording
    lock_file,          \* PID held by /tmp/voice_transcription.pid (0: no file)
    proc_stop_flag,     \* each process's own self.stop_flag['stop']
    old_pid,            \* the PID a process last read from the lock file
    proc_exit,          \* how each process's command ended
    stop_pending,       \* sessions that were recording when a stop command ran
    \* ---- VoiceTranscriptionDaemon ----
    dm_pc,              \* position of the thread handling the 'transcribe' request
    recording_socket,   \* whether self.recording_socket is set
    stop_recording,     \* self.stop_recording
    dm_frame_count,     \* iterations of the recording loop started
    dm_phrase_frames,   \* phrase_frames of _capture_and_transcribe_streaming
    dm_silence_frames,  \* its silence_frames
    dm_started,         \* its recording_started
    dm_full_text,       \* its full_text
    dm_raised,          \* whether its `except Exception` was entered
    dm_sent,            \* the responses sent on the 'transcribe' client's socket
    st_pc,              \* position of the thread handling the 'stop' request
    st_sent             \* the responses sent on the 'stop' client's socket

capVars == <<cap_pc, frame_count, all_frames, phrase_frames, silence_frames,
             recording_started, stop_flag, stop_file, callbacks, exit_reason,
             read_errors, stream>>
httpVars == <<http_pc, api_key, audio_in, script, result, requests, sleeps>>
txVars == <<tx_pc, engine, full_text, committed, callback_log, injected,
            returned, is_streaming, remote, last_turn_time, now, stop_streaming,
            chunks_seen, turns_seen, chunk_replies>>
sessVars == <<monitor_pc, client, recorder_process, recorder_cmd, start_time,
              frames_sent, gen_pc>>
hybVars == <<hyb_pc, current_engine, hyb_api_key, whisper_available,
             current_language, hyb_stop_flag, hyb_stop_file, runs, notifications,
             hyb_result>>
loadVars == <<load_pc, model_lock, whisper_model, model_loaded, constructions,
              load_result>>

procVars == <<proc_pc, lock_file, proc_stop_flag, old_pid, proc_exit, stop_pending>>
daemonVars == <<dm_pc, recording_socket, stop_recording, dm_frame_count,
                dm_phrase_frames, dm_silence_frames, dm_started, dm_full_text,
                dm_raised, dm_sent, st_pc, st_sent>>

vars == <<capVars, httpVars, txVars, sessVars, hybVars, loadVars, procVars, daemonVars>>

-----------------------------------------------------------------------------
(* Configuration of AudioCapture and bounds of the model *)

sample_rate == 16000

\* AudioCapture(chunk_size=...): frame size in samples (about 2.6 frames per
\* second, so that a pause can come before the phrase has its minimum length).
chunk_size == 6100

\* capture_streaming_audio(max_duration=...), in seconds.
max_duration == 5

silence_threshold == 50

\* Most stream.read exceptions in one session.
MaxReadErrors == 1

\* int(sample_rate / chunk_size * 1.5)
short_pause_frames == (sample_rate * 3) \div (chunk_size * 2)

\* int(sample_rate / chunk_size * 4.0)
long_pause_frames == (sample_rate * 4) \div chunk_size

\* int(sample_rate / chunk_size * 2.0)
min_phrase_frames == (sample_rate * 2) \div chunk_size

\* int(sample_rate / chunk_size * 1.0)
final_min_frames == sample_rate \div chunk_size

\* int(sample_rate / chunk_size * max_duration)
max_frames == (sample_rate * max_duration) \div chunk_size

\* RMS volumes a frame may have: at the threshold and just above it.
Volumes == {silence_threshold, silence_threshold + 1}

\* _calculate_volume: the frame is represented by its RMS volume.
_calculate_volume(data) == data

\* `volume > self.silence_threshold`
IsSpeech(data) == _calculate_volume(data) > silence_threshold

\* Variant that hands over the buffer without its first frame.
Call_DropsFirst(frames, path) == [frames |-> Tail(frames), path |-> path]

\* The call callback(self._frames_to_numpy(phrase_frames)) on the given path.
Call(frames, path) == [frames |-> frames, path |-> path]

-----------------------------------------------------------------------------
(* AudioCapture.capture_streaming_audio *)

\* `finally: if stream: stream.stop_stream(); stream.close()`
CloseStream_Skipped == stream

CloseStream == IF stream = "open" THEN "closed" ELSE stream

\* audio.open(...) succeeded; loop state initialised.
OpenStream ==
    /\ cap_pc = "start"
    /\ cap_pc' = "loop"
    /\ UNCHANGED <<frame_count, all_frames, phrase_frames, silence_frames,
                   recording_started, stop_flag, stop_file, callbacks,
                   exit_reason, read_errors>>
    /\ stream' = "open"
    /\ UNCHANGED <<httpVars, txVars, sessVars, hybVars, loadVars, procVars, daemonVars>>

\* pyaudio.PyAudio() or audio.open raises: `except Exception: return []`.
OpenFails ==
    /\ cap_pc = "start"
    /\ cap_pc' = "done"
    /\ exit_reason' = "exception"
    /\ UNCHANGED <<frame_count, all_frames, phrase_frames, silence_frames,
                   recording_started, stop_flag, stop_file, callbacks, read_errors>>
    /\ UNCHANGED stream
    /\ UNCHANGED <<httpVars, txVars, sessVars, hybVars, loadVars, procVars, daemonVars>>

\* Flush on external stop: `if phrase_frames and recording_started and callback`.
StopFlush_NoClear(path) ==
    IF phrase_frames # <<>> /\ recording_started
    THEN /\ callbacks' = Append(callbacks, Call(phrase_frames, path))
         /\ UNCHANGED phrase_frames
    ELSE UNCHANGED <<callbacks, phrase_frames>>

StopFlush(path) ==
    IF phrase_frames # <<>> /\ recording_started
    THEN /\ callbacks' = Append(callbacks, Call(phrase_frames, path))
         /\ phrase_frames' = <<>>
    ELSE UNCHANGED <<callbacks, phrase_frames>>

\* Iteration that finds stop_flag['stop'] set: flush and break.
StopByFlag ==
    /\ cap_pc = "loop"
    /\ frame_count < max_frames
    /\ stop_flag
    /\ StopFlush("stop_flag")
    /\ cap_pc' = "after_loop"
    /\ exit_reason' = "stop_flag"
    /\ UNCHANGED <<frame_count, all_frames, silence_frames, recording_started,
                   stop_flag, stop_file, read_errors>>
    /\ UNCHANGED stream
    /\ UNCHANGED <<httpVars, txVars, sessVars, hybVars, loadVars, procVars, daemonVars>>

\* Iteration that finds the stop marker file: flush and break.
StopByFile ==
    /\ cap_pc = "loop"
    /\ frame_count < max_frames
    /\ ~stop_flag
    /\ stop_file
    /\ StopFlush("stop_file")
    /\ cap_pc' = "after_loop"
    /\ exit_reason' = "stop_file"
    /\ UNCHANGED <<frame_count, all_frames, silence_frames, recording_started,
                   stop_flag, stop_file, read_errors>>
    /\ UNCHANGED stream
    /\ UNCHANGED <<httpVars, txVars, sessVars, hybVars, loadVars, procVars, daemonVars>>

\* Variant in which a failed read counts as a silent frame.
ReadError_CountsSilence ==
    /\ cap_pc = "loop"
    /\ frame_count < max_frames
    /\ ~stop_flag /\ ~stop_file
    /\ read_errors < MaxReadErrors \/ read_errors = frame_count
    /\ read_errors' = read_errors + 1
    /\ frame_count' = frame_count + 1
    /\ silence_frames' = IF recording_started THEN silence_frames + 1 ELSE silence_frames
    /\ UNCHANGED <<cap_pc, all_frames, phrase_frames,
                   recording_started, stop_flag, stop_file, callbacks, exit_reason>>
    /\ UNCHANGED stream
    /\ UNCHANGED <<httpVars, txVars, sessVars, hybVars, loadVars, procVars, daemonVars>>

\* Iteration whose stream.read raises: warning, `continue`. Read errors are
\* bounded by MaxReadErrors, except that a device failing from the first read
\* may go on failing.
ReadError ==
    /\ cap_pc = "loop"
    /\ frame_count < max_frames
    /\ ~stop_flag /\ ~stop_file
    /\ read_errors < MaxReadErrors \/ read_errors = frame_count
    /\ read_errors' = read_errors + 1
    /\ frame_count' = frame_count + 1
    /\ UNCHANGED <<cap_pc, all_frames, phrase_frames, silence_frames,
                   recording_started, stop_flag, stop_file, callbacks, exit_reason>>
    /\ UNCHANGED stream
    /\ UNCHANGED <<httpVars, txVars, sessVars, hybVars, loadVars, procVars, daemonVars>>

\* Short pause = phrase boundary.
AtBoundary_NoMinimum(sil, buf) == sil = short_pause_frames

AtBoundary_LateEmit(sil, buf) ==
    sil >= short_pause_frames /\ Len(buf) >= min_phrase_frames

AtLongPause_LongRunOnly(sil) == sil > long_pause_frames + 1

AtBoundary(sil, buf) ==
    sil = short_pause_frames /\ Len(buf) >= min_phrase_frames

\* Long pause = end recording.
AtLongPause(sil) == sil > long_pause_frames

\* Iteration that reads a frame: append, VAD, boundary / long-pause handling.
ReadFrame(data) ==
    /\ cap_pc = "loop"
    /\ frame_count < max_frames
    /\ ~stop_flag /\ ~stop_file
    /\ frame_count' = frame_count + 1
    /\ all_frames' = Append(all_frames, data)
    /\ LET buf == Append(phrase_frames, data)
           sil == silence_frames + 1
       IN  IF IsSpeech(data)
           THEN /\ recording_started' = TRUE
                /\ silence_frames' = 0
                /\ phrase_frames' = buf
                /\ UNCHANGED <<callbacks, cap_pc, exit_reason>>
           ELSE IF recording_started
           THEN /\ silence_frames' = sil
                /\ UNCHANGED recording_started
                /\ IF AtBoundary(sil, buf)
                   THEN /\ callbacks' = Append(callbacks, Call(buf, "boundary"))
                        /\ phrase_frames' = <<>>
                        /\ UNCHANGED <<cap_pc, exit_reason>>
                   ELSE IF AtLongPause(sil)
                   THEN /\ phrase_frames' = buf
                        /\ cap_pc' = "after_loop"
                        /\ exit_reason' = "long_pause"
                        /\ UNCHANGED callbacks
                   ELSE /\ phrase_frames' = buf
                        /\ UNCHANGED <<callbacks, cap_pc, exit_reason>>
           ELSE /\ phrase_frames' = buf
                /\ UNCHANGED <<recording_started, silence_frames, callbacks,
                               cap_pc, exit_reason>>
    /\ UNCHANGED <<stop_flag, stop_file, read_errors>>
    /\ UNCHANGED stream
    /\ UNCHANGED <<httpVars, txVars, sessVars, hybVars, loadVars, procVars, daemonVars>>

\* range(max_frames) is exhausted: the loop ends by maximum duration.
LoopExhausted ==
    /\ cap_pc = "loop"
    /\ frame_count = max_frames
    /\ cap_pc' = "after_loop"
    /\ exit_reason' = "max_duration"
    /\ UNCHANGED <<frame_count, all_frames, phrase_frames, silence_frames,
                   recording_started, stop_flag, stop_file, callbacks, read_errors>>
    /\ UNCHANGED stream
    /\ UNCHANGED <<httpVars, txVars, sessVars, hybVars, loadVars, procVars, daemonVars>>

\* `if len(phrase_frames) >= final_min_frames and callback`
FinalFlush_NoStartedCheck ==
    /\ cap_pc = "after_loop"
    /\ cap_pc' = "done"
    /\ IF phrase_frames # <<>> /\ Len(phrase_frames) >= final_min_frames
       THEN callbacks' = Append(callbacks, Call(phrase_frames, "final"))
       ELSE UNCHANGED callbacks
    /\ UNCHANGED <<frame_count, all_frames, phrase_frames, silence_frames,
                   recording_started, stop_flag, stop_file, exit_reason, read_errors>>
    /\ stream' = CloseStream
    /\ UNCHANGED <<httpVars, txVars, sessVars, hybVars, loadVars, procVars, daemonVars>>

FinalFlush_NoMinimum ==
    /\ cap_pc = "after_loop"
    /\ cap_pc' = "done"
    /\ IF phrase_frames # <<>> /\ recording_started
       THEN callbacks' = Append(callbacks, Call(phrase_frames, "final"))
       ELSE UNCHANGED callbacks
    /\ UNCHANGED <<frame_count, all_frames, phrase_frames, silence_frames,
                   recording_started, stop_flag, stop_file, exit_reason, read_errors>>
    /\ stream' = CloseStream
    /\ UNCHANGED <<httpVars, txVars, sessVars, hybVars, loadVars, procVars, daemonVars>>

\* `finally` (stream closed), then "Process any remaining phrase", then return.
FinalFlush ==
    /\ cap_pc = "after_loop"
    /\ cap_pc' = "done"
    /\ IF /\ phrase_frames # <<>>
          /\ recording_started
          /\ Len(phrase_frames) >= final_min_frames
       THEN callbacks' = Append(callbacks, Call(phrase_frames, "final"))
       ELSE UNCHANGED callbacks
    /\ UNCHANGED <<frame_count, all_frames, phrase_frames, silence_frames,
                   recording_started, stop_flag, stop_file, exit_reason, read_errors>>
    /\ stream' = CloseStream
    /\ UNCHANGED <<httpVars, txVars, sessVars, hybVars, loadVars, procVars, daemonVars>>

\* Another thread or the signal handler sets stop_flag['stop'] = True.
SetStopFlag ==
    /\ cap_pc \in {"start", "loop"}
    /\ ~stop_flag
    /\ stop_flag' = TRUE
    /\ UNCHANGED <<cap_pc, frame_count, all_frames, phrase_frames, silence_frames,
                   recording_started, stop_file, callbacks, exit_reason, read_errors>>
    /\ UNCHANGED stream
    /\ UNCHANGED <<httpVars, txVars, sessVars, hybVars, loadVars, procVars, daemonVars>>

\* Another process runs stop_recording: the stop marker file is created.
CreateStopFile ==
    /\ cap_pc \in {"start", "loop"}
    /\ ~stop_file
    /\ stop_file' = TRUE
    /\ UNCHANGED <<cap_pc, frame_count, all_frames, phrase_frames, silence_frames,
                   recording_started, stop_flag, callbacks, exit_reason, read_errors>>
    /\ UNCHANGED stream
    /\ UNCHANGED <<httpVars, txVars, sessVars, hybVars, loadVars, procVars, daemonVars>>

CaptureIdle ==
    /\ cap_pc = "idle"
    /\ frame_count = 0
    /\ all_frames = <<>>
    /\ phrase_frames = <<>>
    /\ silence_frames = 0
    /\ recording_started = FALSE
    /\ stop_flag = FALSE
    /\ stop_file = FALSE
    /\ callbacks = <<>>
    /\ exit_reason = "none"
    /\ read_errors = 0
    /\ stream = "none"

HttpIdle ==
    /\ http_pc = "idle"
    /\ api_key = TRUE
    /\ audio_in = [samples |-> 0, silent |-> FALSE, wav_ok |-> TRUE]
    /\ script = <<>>
    /\ result = [ok |-> FALSE, text |-> <<>>]
    /\ requests = 0
    /\ sleeps = <<>>

TextIdle ==
    /\ tx_pc = "idle"
    /\ engine = "none"
    /\ full_text = <<>>
    /\ committed = <<>>
    /\ callback_log = <<>>
    /\ injected = <<>>
    /\ returned = [ok |-> FALSE, text |-> <<>>]
    /\ is_streaming = FALSE
    /\ remote = "closed"
    /\ last_turn_time = 0
    /\ now = 0
    /\ stop_streaming = "none"
    /\ chunks_seen = 0
    /\ turns_seen = 0
    /\ chunk_replies = <<>>

SessionIdle ==
    /\ monitor_pc = "none"
    /\ client = "disconnected"
    /\ recorder_process = "none"
    /\ recorder_cmd = TRUE
    /\ start_time = 0
    /\ frames_sent = 0
    /\ gen_pc = "top"

HybridIdle ==
    /\ hyb_pc = "idle"
    /\ current_engine = "none"
    /\ hyb_api_key = TRUE
    /\ whisper_available = TRUE
    /\ current_language = "auto"
    /\ hyb_stop_flag = FALSE
    /\ hyb_stop_file = FALSE
    /\ runs = <<>>
    /\ notifications = <<>>
    /\ hyb_result = "none"

LoadIdle ==
    /\ load_pc = <<>>
    /\ model_lock = 0
    /\ whisper_model = FALSE
    /\ model_loaded = FALSE
    /\ constructions = 0
    /\ load_result = <<>>

ProcIdle ==
    /\ proc_pc = <<>>
    /\ lock_file = 0
    /\ proc_stop_flag = <<>>
    /\ old_pid = <<>>
    /\ proc_exit = <<>>
    /\ stop_pending = {}

DaemonIdle ==
    /\ dm_pc = "none"
    /\ recording_socket = FALSE
    /\ stop_recording = FALSE
    /\ dm_frame_count = 0
    /\ dm_phrase_frames = <<>>
    /\ dm_silence_frames = 0
    /\ dm_started = FALSE
    /\ dm_full_text = <<>>
    /\ dm_raised = FALSE
    /\ dm_sent = <<>>
    /\ st_pc = "none"
    /\ st_sent = <<>>

\* State at the call of capture_streaming_audio: the session's owner has reset
\* the stop flag and removed the stop marker (or passes a fresh flag).
InitCapture ==
    /\ cap_pc = "start"
    /\ frame_count = 0
    /\ all_frames = <<>>
    /\ phrase_frames = <<>>
    /\ silence_frames = 0
    /\ recording_started = FALSE
    /\ stop_flag = FALSE
    /\ stop_file = FALSE
    /\ callbacks = <<>>
    /\ exit_reason = "none"
    /\ read_errors = 0
    /\ stream = "none"
    /\ HttpIdle
    /\ TextIdle
    /\ SessionIdle
    /\ HybridIdle
    /\ LoadIdle
    /\ ProcIdle
    /\ DaemonIdle

NextCapture ==
    \/ OpenStream
    \/ OpenFails
    \/ StopByFlag
    \/ StopByFile
    \/ ReadError
    \/ \E data \in Volumes : ReadFrame(data)
    \/ LoopExhausted
    \/ FinalFlush
    \/ SetStopFlag
    \/ CreateStopFile

SpecCapture == InitCapture /\ [][NextCapture]_vars

-----------------------------------------------------------------------------
(* Texts *)

Whitespace == {" ", "\t"}

RECURSIVE LStrip(_)
LStrip(s) == IF s # <<>> /\ Head(s) \in Whitespace THEN LStrip(Tail(s)) ELSE s

RECURSIVE RStrip(_)
RStrip(s) ==
    IF s # <<>> /\ s[Len(s)] \in Whitespace
    THEN RStrip(SubSeq(s, 1, Len(s) - 1))
    ELSE s

\* str.strip()
Strip(s) == RStrip(LStrip(s))

\* Python None / a str value
None_AsEmptyString == [ok |-> TRUE, text |-> <<>>]

None == [ok |-> FALSE, text |-> <<>>]

Str(t) == [ok |-> TRUE, text |-> t]

-----------------------------------------------------------------------------
(* ElevenLabsTranscriber.transcribe_audio and _transcribe_with_retry *)

max_retries == 2

retry_delay == 1

\* Size of the WAV header written by frames_to_wav_bytes.
wav_header_bytes == 44

\* `if len(wav_data) < 16000`
min_wav_bytes == 16000

\* `if len(wav_data) < 64000`
silence_check_bytes == 64000

\* Texts the backend may put in a 200 response.
BackendTexts == { <<>>, <<"a">>, <<" ", "b", " ">> }

Response(status, text) == [kind |-> "response", status |-> status, text |-> text]

Raised(kind) == [kind |-> kind, status |-> 0, text |-> <<>>]

\* What one requests.post may produce: a response with a status code, or an
\* exception (Timeout, ConnectionError, any other).
Outcomes ==
    {Response(200, t) : t \in BackendTexts}
    \cup {Response(st, <<>>) : st \in {429, 401, 500, 404}}
    \cup {Raised(k) : k \in {"timeout", "connection_error", "exception"}}

\* The backend's answers to the successive requests of one phrase.
Scripts == [1..(max_retries + 1) -> Outcomes]

\* The audio handed to transcribe_audio: number of samples, the verdict of
\* _is_mostly_silent on it, and whether frames_to_wav_bytes succeeds.
SampleCounts == {7977, 7978, 31977, 31978}

AudioInputs ==
    {[samples |-> n, silent |-> b, wav_ok |-> TRUE] : n \in SampleCounts, b \in BOOLEAN}
    \cup {[samples |-> 7978, silent |-> FALSE, wav_ok |-> FALSE]}

\* len(frames_to_wav_bytes(audio)): header plus 16-bit samples.
WavLen(audio) == wav_header_bytes + 2 * audio.samples

\* `if len(wav_data) < 16000: return ""`
TooShort_NoCheck(wav_len) == FALSE

TooShort(wav_len) == wav_len < min_wav_bytes

\* `if len(wav_data) < 64000: if self._is_mostly_silent(...): return ""`
JudgedSilent(audio) == WavLen(audio) < silence_check_bytes /\ audio.silent

\* `if attempt < self.max_retries` (then sleep and continue)
CanRetry_Never(attempt) == FALSE

CanRetry_Always(attempt) == TRUE

CanRetry(attempt) == attempt < max_retries

\* time.sleep(self.retry_delay * (attempt + 1)) after a 429
RateLimitDelay(attempt) == retry_delay * (attempt + 1)

\* time.sleep(self.retry_delay) after a 5xx, a timeout or a connection error
ErrorDelay(attempt) == retry_delay

Done(res, reqs, slp) == [result |-> res, requests |-> reqs, sleeps |-> slp]

\* The loop `for attempt in range(self.max_retries + 1)` from iteration
\* `attempt` on, with reqs requests issued and the sleeps slp made so far.
RECURSIVE RetryFrom(_, _, _, _)
RetryFrom(scr, attempt, reqs, slp) ==
    IF attempt > max_retries
    THEN Done(None, reqs, slp)
    ELSE LET r == scr[attempt + 1]
             fail == Done(None, reqs + 1, slp)
         IN  IF r.kind = "response"
             THEN IF r.status = 200
                  THEN Done(Str(Strip(r.text)), reqs + 1, slp)
                  ELSE IF r.status = 429
                  THEN IF CanRetry(attempt)
                       THEN RetryFrom(scr, attempt + 1, reqs + 1,
                                      Append(slp, RateLimitDelay(attempt)))
                       ELSE fail
                  ELSE IF r.status = 401
                  THEN fail
                  ELSE IF r.status >= 500
                  THEN IF CanRetry(attempt)
                       THEN RetryFrom(scr, attempt + 1, reqs + 1,
                                      Append(slp, ErrorDelay(attempt)))
                       ELSE fail
                  ELSE fail
             ELSE IF r.kind \in {"timeout", "connection_error"}
             THEN IF CanRetry(attempt)
                  THEN RetryFrom(scr, attempt + 1, reqs + 1,
                                 Append(slp, ErrorDelay(attempt)))
                  ELSE fail
             ELSE fail

_transcribe_with_retry(scr) == RetryFrom(scr, 0, 0, <<>>)

\* transcribe_audio(audio_data, language) with the backend answering by scr.
transcribe_audio(audio, key, scr) ==
    IF ~key
    THEN Done(None, 0, <<>>)
    ELSE IF ~audio.wav_ok
    THEN Done(None, 0, <<>>)
    ELSE IF TooShort(WavLen(audio))
    THEN Done(Str(<<>>), 0, <<>>)
    ELSE IF JudgedSilent(audio)
    THEN Done(Str(<<>>), 0, <<>>)
    ELSE _transcribe_with_retry(scr)

\* One call of transcribe_audio.
TranscribeAudioCall ==
    /\ http_pc = "call"
    /\ LET out == transcribe_audio(audio_in, api_key, script)
       IN  /\ result' = out.result
           /\ requests' = out.requests
           /\ sleeps' = out.sleeps
    /\ http_pc' = "done"
    /\ UNCHANGED <<api_key, audio_in, script>>
    /\ UNCHANGED <<capVars, txVars, sessVars, hybVars, loadVars, procVars, daemonVars>>

InitHTTP ==
    /\ http_pc = "call"
    /\ api_key \in BOOLEAN
    /\ audio_in \in AudioInputs
    /\ script \in Scripts
    /\ result = None
    /\ requests = 0
    /\ sleeps = <<>>
    /\ CaptureIdle
    /\ TextIdle
    /\ SessionIdle
    /\ HybridIdle
    /\ LoadIdle
    /\ ProcIdle
    /\ DaemonIdle

NextHTTP == TranscribeAudioCall

SpecHTTP == InitHTTP /\ [][NextHTTP]_vars

-----------------------------------------------------------------------------
(* Properties of transcribe_audio and _transcribe_with_retry *)

\* The call reached _transcribe_with_retry.
Submitted ==
    /\ api_key
    /\ audio_in.wav_ok
    /\ WavLen(audio_in) >= min_wav_bytes
    /\ ~(WavLen(audio_in) < silence_check_bytes /\ audio_in.silent)

Retryable(o) ==
    \/ o.kind \in {"timeout", "connection_error"}
    \/ o.kind = "response" /\ (o.status = 429 \/ o.status >= 500)

\* C9: with an API key configured, transcribe_audio on a payload whose WAV
\* encoding is shorter than 16000 bytes returns the empty string (not None)
\* and issues no request, whatever the backend would have answered.
C9_ShortPayloadSkipsNetwork ==
    (/\ http_pc = "done"
     /\ api_key
     /\ audio_in.wav_ok
     /\ WavLen(audio_in) < min_wav_bytes)
    => (result = Str(<<>>) /\ requests = 0 /\ sleeps = <<>>)

\* C9 witness: a finished call on a non-silent payload two bytes under the
\* minimum, for which the backend would have returned a text.
C9_Witness ==
    /\ http_pc = "done"
    /\ api_key
    /\ audio_in.wav_ok
    /\ ~audio_in.silent
    /\ WavLen(audio_in) = min_wav_bytes - 2
    /\ script[1] = Response(200, <<"a">>)
    /\ requests = 0

\* C10: when the backend answers k retryable failures (k <= max_retries) and
\* then a 200, exactly k + 1 requests are issued, k sleeps are made and the
\* text of that 200 response (stripped) is returned; a 429 followed by a 200
\* gives exactly one retry, after a sleep of retry_delay.
C10_RetryThenSuccess ==
    (http_pc = "done" /\ Submitted) =>
        /\ \A k \in 0..max_retries :
              (/\ \A i \in 1..k : Retryable(script[i])
               /\ script[k + 1].kind = "response"
               /\ script[k + 1].status = 200)
              => /\ requests = k + 1
                 /\ Len(sleeps) = k
                 /\ result = Str(Strip(script[k + 1].text))
        /\ (/\ script[1] = Response(429, <<>>)
            /\ script[2].kind = "response"
            /\ script[2].status = 200)
              => (requests = 2 /\ sleeps = <<retry_delay>>)

\* C10 witness: a 429 followed by a 200 carrying a text was retried once.
C10_Witness ==
    /\ http_pc = "done"
    /\ Submitted
    /\ script[1] = Response(429, <<>>)
    /\ script[2] = Response(200, <<" ", "b", " ">>)
    /\ requests = 2
    /\ result = Str(<<"b">>)

\* An outcome followed by a sleep when retried: HTTP 429 or HTTP 5xx.
StatusRetried(o) ==
    o.kind = "response" /\ (o.status = 429 \/ o.status >= 500)

\* C11: the wait before the n-th retry (n = 1, 2) is retry_delay * n, both
\* when the response before it was HTTP 429 and when it was HTTP 5xx.
C11_LinearBackoffFor429And5xx ==
    (http_pc = "done" /\ Submitted) =>
        \A n \in 1..Len(sleeps) :
            StatusRetried(script[n]) => sleeps[n] = retry_delay * n

\* C12: whatever the backend answers, one phrase costs at most
\* max_retries + 1 requests; 429, 5xx, timeout and connection error count on
\* the same attempt counter (the n-th request is always attempt n, and
\* max_retries + 1 retryable failures of any mix use up all attempts); after
\* the last failed attempt None is returned with no further request and no
\* further sleep.
C12_AtMostThreeRequests ==
    (http_pc = "done") =>
        /\ requests <= max_retries + 1
        /\ Len(sleeps) <= max_retries
        /\ (Submitted /\ \A i \in 1..(max_retries + 1) : Retryable(script[i]))
              => /\ requests = max_retries + 1
                 /\ Len(sleeps) = max_retries
                 /\ ~result.ok
        /\ Submitted => \A i \in 1..(requests - 1) : Retryable(script[i])

\* C12 witness: a 429, a timeout and a 500 in a row used up the three attempts.
C12_Witness ==
    /\ http_pc = "done"
    /\ Submitted
    /\ script[1] = Response(429, <<>>)
    /\ script[2] = Raised("timeout")
    /\ script[3] = Response(500, <<>>)
    /\ requests = 3
    /\ ~result.ok

\* C13: a 401 answer to the k-th request (the earlier ones having failed
\* retryably) ends the call: exactly k requests were issued and the result is
\* the failure value, not the empty string.
C13_AuthErrorIsTerminal ==
    (http_pc = "done" /\ Submitted) =>
        \A k \in 1..(max_retries + 1) :
            (/\ \A i \in 1..(k - 1) : Retryable(script[i])
             /\ script[k] = Response(401, <<>>))
            => /\ requests = k
               /\ Len(sleeps) = k - 1
               /\ ~result.ok
               /\ result # Str(<<>>)

\* C13 witness: a 429, then a 401 that would have been followed by a 200.
C13_Witness ==
    /\ http_pc = "done"
    /\ Submitted
    /\ script[1] = Response(429, <<>>)
    /\ script[2] = Response(401, <<>>)
    /\ script[3] = Response(200, <<"a">>)
    /\ requests = 2
    /\ ~result.ok

-----------------------------------------------------------------------------
(* The transcription session: transcribe_streaming of the chunked-HTTP     *)
(* engine, the AssemblyAI event handlers, and the injection callback       *)

\* Phrases handed to process_audio_chunk in one session.
MaxChunks == 3

\* Turn events delivered in one AssemblyAI session.
MaxTurns == 3

\* Clock ticks in one AssemblyAI session.
MaxTime == 2

\* Lengths, in frames, of the phrases the capture may hand over.
PhraseFrameCounts == {1, 3, 6}

\* Transcripts a turn event may carry.
TurnTexts == { <<>>, <<" ">>, <<"a">>, <<" ", "b", "\t">>, <<"a", " ", " ", "b">> }

TurnEvents ==
    [transcript : TurnTexts, end_of_turn : BOOLEAN, turn_is_formatted : BOOLEAN]

\* _handle_transcription_result(phrase_text, full_text): the inject_text calls
\* it makes.
HandleResult_InjectFull(phrase_text, full) ==
    IF Strip(phrase_text) # <<>> THEN << full \o <<" ">> >> ELSE << >>

_handle_transcription_result(phrase_text, full) ==
    IF Strip(phrase_text) # <<>> THEN << phrase_text \o <<" ">> >> ELSE << >>

\* text_callback(phrase_text, full_text): logged, then handled.
CallTextCallback(phrase_text, full) ==
    /\ callback_log' = Append(callback_log, [phrase |-> phrase_text, full |-> full])
    /\ injected' = injected \o _handle_transcription_result(phrase_text, full)

\* `len(audio_chunk) < 0.8 * audio_capture.sample_rate`
ChunkTooShort(samples) == 10 * samples < 8 * sample_rate

\* `full_text += phrase_text + " "`
AppendPhrase_DoubleSpace(full, phrase_text) == full \o <<" ">> \o phrase_text \o <<" ">>

AppendPhrase(full, phrase_text) == full \o phrase_text \o <<" ">>

\* How the request that ended a phrase was answered: a 200 response with or
\* without text, HTTP 401, another status that is not retried, the last of
\* the attempts failing in a way that is retried, or an unexpected exception.
ReplyKind(o) ==
    IF o.kind = "response" /\ o.status = 200
    THEN (IF Strip(o.text) = <<>> THEN "ok_blank" ELSE "ok_text")
    ELSE IF o.kind = "response" /\ o.status = 401 THEN "unauthorized"
    ELSE IF o.kind = "exception" THEN "raised"
    ELSE IF o.kind \in {"timeout", "connection_error"} \/ o.status = 429 \/ o.status >= 500
    THEN "exhausted"
    ELSE "rejected"

\* Variant in which a phrase whose transcription returns None ends the
\* session.
ProcessAudioChunk_AbortsOnFailure(k, silent, scr) ==
    /\ tx_pc = "session"
    /\ engine = "elevenlabs"
    /\ chunks_seen < MaxChunks
    /\ chunks_seen' = chunks_seen + 1
    /\ LET samples == k * chunk_size
           audio == [samples |-> samples, silent |-> silent, wav_ok |-> TRUE]
           out == transcribe_audio(audio, api_key, scr)
           phrase_text == out.result
       IN  /\ chunk_replies' = Append(chunk_replies,
                                      IF ChunkTooShort(samples) THEN "skipped"
                                      ELSE IF out.requests = 0 THEN "not_sent"
                                      ELSE ReplyKind(scr[out.requests]))
           /\ IF /\ ~ChunkTooShort(samples)
                 /\ phrase_text.ok
                 /\ phrase_text.text # <<>>
                 /\ Strip(phrase_text.text) # <<>>
              THEN /\ full_text' = AppendPhrase(full_text, phrase_text.text)
                   /\ committed' = Append(committed, phrase_text.text)
                   /\ CallTextCallback(Strip(phrase_text.text), Strip(full_text'))
              ELSE UNCHANGED <<full_text, committed, callback_log, injected>>
           /\ IF ~ChunkTooShort(samples) /\ ~phrase_text.ok
              THEN /\ tx_pc' = "returned"
                   /\ returned' = Str(Strip(full_text))
              ELSE UNCHANGED <<tx_pc, returned>>
    /\ UNCHANGED <<engine, is_streaming, remote, last_turn_time,
                   now, stop_streaming>>
    /\ UNCHANGED turns_seen
    /\ UNCHANGED <<capVars, httpVars, sessVars, hybVars, loadVars, procVars, daemonVars>>

\* process_audio_chunk(audio_chunk): a phrase of k frames handed over by the
\* capture, the backend answering by scr.
ProcessAudioChunk(k, silent, scr) ==
    /\ tx_pc = "session"
    /\ engine = "elevenlabs"
    /\ chunks_seen < MaxChunks
    /\ chunks_seen' = chunks_seen + 1
    /\ LET samples == k * chunk_size
           audio == [samples |-> samples, silent |-> silent, wav_ok |-> TRUE]
           out == transcribe_audio(audio, api_key, scr)
           phrase_text == out.result
       IN  /\ chunk_replies' = Append(chunk_replies,
                                      IF ChunkTooShort(samples) THEN "skipped"
                                      ELSE IF out.requests = 0 THEN "not_sent"
                                      ELSE ReplyKind(scr[out.requests]))
           /\ IF /\ ~ChunkTooShort(samples)
                 /\ phrase_text.ok
                 /\ phrase_text.text # <<>>
                 /\ Strip(phrase_text.text) # <<>>
              THEN /\ full_text' = AppendPhrase(full_text, phrase_text.text)
                   /\ committed' = Append(committed, phrase_text.text)
                   /\ CallTextCallback(Strip(phrase_text.text), Strip(full_text'))
              ELSE UNCHANGED <<full_text, committed, callback_log, injected>>
    /\ UNCHANGED <<tx_pc, engine, returned, is_streaming, remote, last_turn_time,
                   now, stop_streaming>>
    /\ UNCHANGED turns_seen
    /\ UNCHANGED <<capVars, httpVars, sessVars, hybVars, loadVars, procVars, daemonVars>>

\* capture_streaming_audio returned: `return full_text.strip()`.
CaptureReturns ==
    /\ tx_pc = "session"
    /\ engine = "elevenlabs"
    /\ tx_pc' = "returned"
    /\ returned' = Str(Strip(full_text))
    /\ UNCHANGED <<engine, full_text, committed, callback_log, injected,
                   is_streaming, remote, last_turn_time, now, stop_streaming,
                   chunks_seen>>
    /\ UNCHANGED <<turns_seen, chunk_replies>>
    /\ UNCHANGED <<capVars, httpVars, sessVars, hybVars, loadVars, procVars, daemonVars>>

\* on_begin: the remote session-begin event.
OnBegin ==
    /\ engine = "assemblyai"
    /\ tx_pc \in {"connected", "streaming"}
    /\ remote = "connected"
    /\ remote' = "begun"
    /\ is_streaming' = TRUE
    /\ full_text' = <<>>
    /\ UNCHANGED <<tx_pc, engine, committed, callback_log, injected, returned,
                   last_turn_time, now, stop_streaming, chunks_seen>>
    /\ UNCHANGED <<turns_seen, chunk_replies>>
    /\ UNCHANGED <<capVars, httpVars, sessVars, hybVars, loadVars, procVars, daemonVars>>

\* `if transcript and event.end_of_turn and event.turn_is_formatted`
ShouldCommit_IgnoreFormatted(transcript, ev) ==
    transcript # <<>> /\ ev.end_of_turn

ShouldCommit(transcript, ev) ==
    transcript # <<>> /\ ev.end_of_turn /\ ev.turn_is_formatted

\* `if full_text and not full_text.endswith(" "): full_text += " "`, then
\* `full_text += transcript`
AppendTurn_NoSeparator(full, transcript) == full \o transcript

AppendTurn(full, transcript) ==
    (IF full # <<>> /\ full[Len(full)] # " " THEN full \o <<" ">> ELSE full)
        \o transcript

\* on_turn: a turn event of the session being streamed.
OnTurn(ev) ==
    /\ engine = "assemblyai"
    /\ tx_pc = "streaming"
    /\ remote = "begun"
    /\ turns_seen < MaxTurns
    /\ turns_seen' = turns_seen + 1
    /\ UNCHANGED chunk_replies
    /\ last_turn_time' = now
    /\ LET transcript == Strip(ev.transcript)
       IN  IF ShouldCommit(transcript, ev)
           THEN /\ full_text' = AppendTurn(full_text, transcript)
                /\ committed' = Append(committed, transcript)
                /\ CallTextCallback(transcript, Strip(full_text'))
           ELSE UNCHANGED <<full_text, committed, callback_log, injected>>
    /\ UNCHANGED <<tx_pc, engine, returned, is_streaming, remote, now,
                   stop_streaming, chunks_seen>>
    /\ UNCHANGED <<capVars, httpVars, sessVars, hybVars, loadVars, procVars, daemonVars>>

\* The handlers' `if transcriber.stop_streaming: transcriber.stop_streaming.set()`
SetStopEventIfAny == IF stop_streaming = "none" THEN "none" ELSE "set"

\* on_terminated: the remote termination event.
OnTerminated ==
    /\ engine = "assemblyai"
    /\ tx_pc \in {"connected", "streaming"}
    /\ remote \in {"connected", "begun"}
    /\ remote' = "closed"
    /\ is_streaming' = FALSE
    /\ stop_streaming' = SetStopEventIfAny
    /\ UNCHANGED <<tx_pc, engine, full_text, committed, callback_log, injected,
                   returned, last_turn_time, now, chunks_seen>>
    /\ UNCHANGED <<turns_seen, chunk_replies>>
    /\ UNCHANGED <<capVars, httpVars, sessVars, hybVars, loadVars, procVars, daemonVars>>

\* on_error: a streaming error reported by the client.
OnError ==
    /\ engine = "assemblyai"
    /\ tx_pc \in {"connected", "streaming"}
    /\ remote \in {"connected", "begun"}
    /\ remote' = "closed"
    /\ is_streaming' = FALSE
    /\ stop_streaming' = SetStopEventIfAny
    /\ UNCHANGED <<tx_pc, engine, full_text, committed, callback_log, injected,
                   returned, last_turn_time, now, chunks_seen>>
    /\ UNCHANGED <<turns_seen, chunk_replies>>
    /\ UNCHANGED <<capVars, httpVars, sessVars, hybVars, loadVars, procVars, daemonVars>>

\* `self.stop_streaming = threading.Event()`, then monitor and recorder start
\* and client.stream(audio_generator()) runs.
StartStreaming ==
    /\ engine = "assemblyai"
    /\ tx_pc = "connected"
    /\ tx_pc' = "streaming"
    /\ stop_streaming' = "clear"
    /\ UNCHANGED <<engine, full_text, committed, callback_log, injected, returned,
                   is_streaming, remote, last_turn_time, now, chunks_seen>>
    /\ UNCHANGED <<turns_seen, chunk_replies>>
    /\ UNCHANGED <<capVars, httpVars, sessVars, hybVars, loadVars, procVars, daemonVars>>

\* client.stream returned or raised: `finally` sets the stop event and
\* disconnects, then `return self.full_text.strip()`.
StreamingReturns ==
    /\ engine = "assemblyai"
    /\ tx_pc = "streaming"
    /\ tx_pc' = "returned"
    /\ stop_streaming' = "set"
    /\ remote' = "closed"
    /\ returned' = Str(Strip(full_text))
    /\ UNCHANGED <<engine, full_text, committed, callback_log, injected,
                   is_streaming, last_turn_time, now, chunks_seen>>
    /\ UNCHANGED <<turns_seen, chunk_replies>>
    /\ UNCHANGED <<capVars, httpVars, sessVars, hybVars, loadVars, procVars, daemonVars>>

\* time.time() advances.
Tick ==
    /\ engine = "assemblyai"
    /\ tx_pc \in {"connected", "streaming"}
    /\ now < MaxTime
    /\ now' = now + 1
    /\ UNCHANGED <<tx_pc, engine, full_text, committed, callback_log, injected,
                   returned, is_streaming, remote, last_turn_time, stop_streaming,
                   chunks_seen>>
    /\ UNCHANGED <<turns_seen, chunk_replies>>
    /\ UNCHANGED <<capVars, httpVars, sessVars, hybVars, loadVars, procVars, daemonVars>>

\* A session at the point where transcribe_streaming has reset its transcript:
\* the chunked-HTTP engine about to capture, or the AssemblyAI engine just
\* connected (full_text = "", last_turn_time = time.time()).
InitText ==
    /\ engine \in {"elevenlabs", "assemblyai"}
    /\ tx_pc = IF engine = "elevenlabs" THEN "session" ELSE "connected"
    /\ remote = IF engine = "elevenlabs" THEN "closed" ELSE "connected"
    /\ full_text = <<>>
    /\ committed = <<>>
    /\ callback_log = <<>>
    /\ injected = <<>>
    /\ returned = None
    /\ is_streaming = FALSE
    /\ last_turn_time = 0
    /\ now = 0
    /\ stop_streaming = "none"
    /\ chunks_seen = 0
    /\ turns_seen = 0
    /\ chunk_replies = <<>>
    /\ CaptureIdle
    /\ HttpIdle
    /\ SessionIdle
    /\ HybridIdle
    /\ LoadIdle
    /\ ProcIdle
    /\ DaemonIdle

NextText ==
    \/ \E k \in PhraseFrameCounts, silent \in BOOLEAN, scr \in Scripts :
          ProcessAudioChunk(k, silent, scr)
    \/ CaptureReturns
    \/ OnBegin
    \/ \E ev \in TurnEvents : OnTurn(ev)
    \/ OnTerminated
    \/ OnError
    \/ StartStreaming
    \/ StreamingReturns
    \/ Tick

SpecText == InitText /\ [][NextText]_vars

\* on_begin delivered when the session has already begun (a begin event that
\* follows turn events): the handler itself has no guard.
OnBeginLate ==
    /\ engine = "assemblyai"
    /\ tx_pc \in {"connected", "streaming"}
    /\ remote = "begun"
    /\ is_streaming' = TRUE
    /\ full_text' = <<>>
    /\ UNCHANGED <<tx_pc, engine, committed, callback_log, injected, returned,
                   remote, last_turn_time, now, stop_streaming, chunks_seen>>
    /\ UNCHANGED <<turns_seen, chunk_replies>>
    /\ UNCHANGED <<capVars, httpVars, sessVars, hybVars, loadVars, procVars, daemonVars>>

\* The session with the events in any order.
NextTextAnyOrder == NextText \/ OnBeginLate

SpecTextAnyOrder == InitText /\ [][NextTextAnyOrder]_vars

-----------------------------------------------------------------------------
(* Properties of capture_streaming_audio *)

NoSpeech(frames) == \A i \in 1..Len(frames) : ~IsSpeech(frames[i])

\* frames = speech^s followed by silence only
SpeechThenSilence(frames, s) ==
    /\ \A i \in 1..s : IsSpeech(frames[i])
    /\ \A i \in (s + 1)..Len(frames) : ~IsSpeech(frames[i])

\* frames = speech^s1 silence^p speech^s2 followed by silence only
TwoRuns(frames, s1, p, s2) ==
    /\ \A i \in 1..s1 : IsSpeech(frames[i])
    /\ \A i \in (s1 + 1)..(s1 + p) : ~IsSpeech(frames[i])
    /\ \A i \in (s1 + p + 1)..(s1 + p + s2) : IsSpeech(frames[i])
    /\ \A i \in (s1 + p + s2 + 1)..Len(frames) : ~IsSpeech(frames[i])

StopSignalled == stop_flag \/ stop_file

StopExits == {"stop_flag", "stop_file"}

NaturalExits == {"long_pause", "max_duration"}

LastCall == callbacks[Len(callbacks)]

\* C1: while no frame read so far is classified as speech the phrase callback
\* has never been invoked, and a session over silence-only input that no stop
\* signal and no device error interrupted ends by long pause or by maximum
\* duration, having run all max_frames iterations.
C1_SilenceOnlyEmitsNothing ==
    NoSpeech(all_frames) =>
        /\ callbacks = <<>>
        /\ (cap_pc = "done" /\ ~StopSignalled /\ exit_reason # "exception")
              => (exit_reason \in NaturalExits /\ frame_count = max_frames)

\* C1 witness: a finished session over max_frames frames of silence.
C1_Witness ==
    /\ cap_pc = "done"
    /\ Len(all_frames) = max_frames
    /\ NoSpeech(all_frames)
    /\ exit_reason = "max_duration"

\* C2 (as claimed): for an input made of one speech run of at least
\* min_phrase_frames followed by at least short_pause_frames of silence and
\* then silence until the session ends, the callback is invoked exactly once
\* over the whole session, at the short-pause boundary.
C2_SingleRunExactlyOnce ==
    (/\ cap_pc = "done"
     /\ exit_reason \in NaturalExits
     /\ \E s \in min_phrase_frames..Len(all_frames) :
            /\ Len(all_frames) - s >= short_pause_frames
            /\ SpeechThenSilence(all_frames, s))
    => (Len(callbacks) = 1 /\ callbacks[1].path = "boundary")

\* C3 (as claimed): for an input made of two speech runs separated by a pause
\* of at least short_pause_frames and at most long_pause_frames silence frames
\* (the second run followed by at least short_pause_frames of silence), the
\* callback is invoked exactly twice in the whole session.
C3_TwoRunsExactlyTwice ==
    (/\ cap_pc = "done"
     /\ exit_reason \in NaturalExits
     /\ \E s1 \in 1..Len(all_frames), s2 \in 1..Len(all_frames),
           p \in short_pause_frames..long_pause_frames :
            /\ Len(all_frames) - (s1 + p + s2) >= short_pause_frames
            /\ TwoRuns(all_frames, s1, p, s2))
    => Len(callbacks) = 2

\* C4: once a stop signal (flag or marker file) is set while the loop runs,
\* no further frame is read and the next step of the loop leaves it through
\* the external-stop exit; on that step a buffer of at least final_min_frames
\* (speech having started) is passed to the callback and cleared, and the
\* final flush after a stop exit invokes the callback no more: the buffer is
\* passed exactly once.
C4_StopExitsAndFlushesOnce ==
    [][ /\ (cap_pc = "loop" /\ StopSignalled /\ frame_count < max_frames) =>
             /\ all_frames' = all_frames
             /\ frame_count' = frame_count
             /\ (stop_flag' = stop_flag /\ stop_file' = stop_file) =>
                   /\ cap_pc' = "after_loop"
                   /\ exit_reason' \in StopExits
                   /\ (recording_started /\ Len(phrase_frames) >= final_min_frames) =>
                         /\ callbacks' = Append(callbacks,
                                                Call(phrase_frames, exit_reason'))
                         /\ phrase_frames' = <<>>
        /\ (cap_pc = "after_loop" /\ exit_reason \in StopExits) =>
             /\ cap_pc' = "done"
             /\ callbacks' = callbacks
      ]_vars

\* C4 witness: a session ended by the stop flag whose buffered phrase of at
\* least final_min_frames is the last call, made on the stop path.
C4_Witness ==
    /\ cap_pc = "done"
    /\ exit_reason = "stop_flag"
    /\ callbacks # <<>>
    /\ LastCall.path = "stop_flag"
    /\ Len(LastCall.frames) >= final_min_frames
    /\ Len(LastCall.frames) < Len(all_frames)

C5_DiscardReached ==
    /\ cap_pc = "done"
    /\ exit_reason \in NaturalExits
    /\ recording_started
    /\ phrase_frames # <<>>
    /\ Len(phrase_frames) < final_min_frames

-----------------------------------------------------------------------------
(* Properties of the transcription session *)

\* The filter of the streaming-protocol engine, as stated.
FinalFormatted(ev) ==
    Strip(ev.transcript) # <<>> /\ ev.end_of_turn /\ ev.turn_is_formatted

RECURSIVE JoinSpace(_)
JoinSpace(segs) ==
    IF segs = <<>> THEN <<>>
    ELSE IF Len(segs) = 1 THEN segs[1]
    ELSE segs[1] \o <<" ">> \o JoinSpace(Tail(segs))

HasDoubledSpace(s) == \E i \in 1..(Len(s) - 1) : s[i] = " " /\ s[i + 1] = " "

\* C6: handling a turn event changes the transcript and calls the text
\* callback if and only if the event's stripped text is non-empty and both
\* end_of_turn and turn_is_formatted are true; such an event is committed
\* once (one segment, one callback carrying the stripped text) and any other
\* event leaves full_text, the committed segments and the callback log as
\* they were.
C6_CommitIffFinalFormatted ==
    [][ \A ev \in TurnEvents :
          OnTurn(ev) =>
            IF FinalFormatted(ev)
            THEN /\ full_text' # full_text
                 /\ Len(committed') = Len(committed) + 1
                 /\ Len(callback_log') = Len(callback_log) + 1
                 /\ callback_log'[Len(callback_log')].phrase = Strip(ev.transcript)
            ELSE /\ full_text' = full_text
                 /\ committed' = committed
                 /\ callback_log' = callback_log
                 /\ injected' = injected
      ]_vars

\* C6 witness: an AssemblyAI session that handled three turn events, of which
\* one was committed and two left the transcript alone.
C6_Witness ==
    /\ engine = "assemblyai"
    /\ turns_seen = 3
    /\ committed = << <<"a">> >>
    /\ Len(callback_log) = 1
    /\ full_text = <<"a">>

\* C7: inject_text is called once per committed segment, in commit order,
\* each time with that segment's non-empty stripped text followed by exactly
\* one space: never with an empty fragment, never with the full transcript.
C7_InjectOncePerSegment ==
    /\ Len(injected) = Len(committed)
    /\ \A i \in 1..Len(injected) :
          /\ Strip(committed[i]) # <<>>
          /\ injected[i] = Strip(committed[i]) \o <<" ">>
          /\ injected[i][Len(injected[i]) - 1] \notin Whitespace

\* C7 witness: two different segments were committed and injected.
C7_Witness ==
    /\ Len(committed) = 2
    /\ injected = << <<"a", " ">>, <<"b", " ">> >>
    /\ engine = "elevenlabs"

\* C8: the string transcribe_streaming returns is the committed segments in
\* commit order joined by exactly one space, carries no leading or trailing
\* whitespace and no doubled space that is not inside a segment; the
\* full_text given to the i-th callback is that join of the first i segments.
C8_TranscriptIsSingleSpaceJoin ==
    /\ tx_pc = "returned" =>
          /\ returned = Str(JoinSpace(committed))
          /\ Strip(returned.text) = returned.text
          /\ (\A i \in 1..Len(committed) : ~HasDoubledSpace(committed[i]))
                => ~HasDoubledSpace(returned.text)
    /\ Len(callback_log) = Len(committed)
    /\ \A i \in 1..Len(callback_log) :
          callback_log[i].full = JoinSpace(SubSeq(committed, 1, i))

\* C8 witness: a returned session with three committed segments.
C8_Witness ==
    /\ tx_pc = "returned"
    /\ Len(committed) = 3
    /\ committed[1] # committed[2]
    /\ returned.text # <<>>

\* Replies by which a submitted phrase fails: HTTP 401, another status that
\* is not retried, or the attempts used up.
PhraseFailures == {"unauthorized", "rejected", "exhausted"}

Committing(replies) == {i \in DOMAIN replies : replies[i] = "ok_text"}

\* C35: a phrase that fails in the chunked-HTTP engine leaves the transcript,
\* the committed segments and the text callback untouched and the session
\* capturing; every phrase answered with a text, before or after a failed
\* one, is committed and passed to the callback.
C35_FailedPhraseLosesOnlyItself ==
    /\ [][(/\ Len(chunk_replies') = Len(chunk_replies) + 1
           /\ chunk_replies'[Len(chunk_replies')] \in PhraseFailures)
          => /\ UNCHANGED <<full_text, committed, callback_log, injected>>
             /\ tx_pc' = "session"]_vars
    /\ [](engine = "elevenlabs" =>
            /\ Len(committed) = Cardinality(Committing(chunk_replies))
            /\ Len(callback_log) = Cardinality(Committing(chunk_replies)))

\* C35 witness: a session whose first phrase was refused with HTTP 401, whose
\* second used up its attempts and whose third was transcribed, returned with
\* the third phrase's text.
C35_Witness ==
    /\ tx_pc = "returned"
    /\ chunk_replies = <<"unauthorized", "exhausted", "ok_text">>
    /\ Len(committed) = 1
    /\ returned = Str(Strip(committed[1]))

\* s is a prefix of t.
IsPrefixOf(s, t) == Len(s) <= Len(t) /\ SubSeq(t, 1, Len(s)) = s

\* C34: within an AssemblyAI session full_text only grows: every step leaves
\* the old value as a prefix of the new one.
C34_TranscriptOnlyGrows ==
    [][engine = "assemblyai" => IsPrefixOf(full_text, full_text')]_vars

-----------------------------------------------------------------------------
(* WhisperFallback._load_model under concurrent first calls *)

\* Threads calling _load_model concurrently.
NumThreads == 3

Threads == 1..NumThreads

notLoad == <<capVars, httpVars, txVars, sessVars, hybVars, procVars, daemonVars>>

\* `return True` / `return False` of thread t, leaving the `with` block.
LoadReturns(t, value, unlock) ==
    /\ load_pc' = [load_pc EXCEPT ![t] = "done"]
    /\ load_result' = [load_result EXCEPT ![t] = value]
    /\ model_lock' = IF unlock THEN 0 ELSE model_lock

\* `if self.model_loaded and self.whisper_model` before the lock: the read of
\* model_loaded.
FirstCheckLoaded(t) ==
    /\ load_pc[t] = "check"
    /\ load_pc' = [load_pc EXCEPT ![t] = IF model_loaded THEN "check_model"
                                                         ELSE "acquire"]
    /\ UNCHANGED <<model_lock, whisper_model, model_loaded, constructions,
                   load_result>>
    /\ UNCHANGED notLoad

\* The read of whisper_model that follows: `return True` if it is set.
FirstCheckModel(t) ==
    /\ load_pc[t] = "check_model"
    /\ IF whisper_model
       THEN LoadReturns(t, "True", FALSE)
       ELSE /\ load_pc' = [load_pc EXCEPT ![t] = "acquire"]
            /\ UNCHANGED <<load_result, model_lock>>
    /\ UNCHANGED <<whisper_model, model_loaded, constructions>>
    /\ UNCHANGED notLoad

\* `with self.model_lock:` entered.
AcquireLock(t) ==
    /\ load_pc[t] = "acquire"
    /\ model_lock = 0
    /\ model_lock' = t
    /\ load_pc' = [load_pc EXCEPT ![t] = "locked"]
    /\ UNCHANGED <<whisper_model, model_loaded, constructions, load_result>>
    /\ UNCHANGED notLoad

\* "Double-check after acquiring lock"
LoadedUnderLock_Skipped == FALSE

LoadedUnderLock == model_loaded /\ whisper_model

SecondCheck(t) ==
    /\ load_pc[t] = "locked"
    /\ IF LoadedUnderLock
       THEN LoadReturns(t, "True", TRUE)
       ELSE /\ load_pc' = [load_pc EXCEPT ![t] = "construct"]
            /\ UNCHANGED <<load_result, model_lock>>
    /\ UNCHANGED <<whisper_model, model_loaded, constructions>>
    /\ UNCHANGED notLoad

\* `self.whisper_model = WhisperModel(...)` succeeds.
ConstructModel(t) ==
    /\ load_pc[t] = "construct"
    /\ whisper_model' = TRUE
    /\ constructions' = constructions + 1
    /\ load_pc' = [load_pc EXCEPT ![t] = "constructed"]
    /\ UNCHANGED <<model_lock, model_loaded, load_result>>
    /\ UNCHANGED notLoad

\* The import or the construction raises: `except Exception` resets both
\* fields and returns False.
ConstructFails(t) ==
    /\ load_pc[t] = "construct"
    /\ whisper_model' = FALSE
    /\ model_loaded' = FALSE
    /\ LoadReturns(t, "False", TRUE)
    /\ UNCHANGED constructions
    /\ UNCHANGED notLoad

\* `self.model_loaded = True`, `return True`.
FinishLoad(t) ==
    /\ load_pc[t] = "constructed"
    /\ model_loaded' = TRUE
    /\ LoadReturns(t, "True", TRUE)
    /\ UNCHANGED <<whisper_model, constructions>>
    /\ UNCHANGED notLoad

\* A fresh WhisperFallback instance, every thread entering _load_model.
InitLoad ==
    /\ load_pc = [t \in Threads |-> "check"]
    /\ model_lock = 0
    /\ whisper_model = FALSE
    /\ model_loaded = FALSE
    /\ constructions = 0
    /\ load_result = [t \in Threads |-> "none"]
    /\ CaptureIdle
    /\ HttpIdle
    /\ TextIdle
    /\ SessionIdle
    /\ HybridIdle
    /\ ProcIdle
    /\ DaemonIdle

NextLoad ==
    \/ \E t \in Threads : FirstCheckLoaded(t)
    \/ \E t \in Threads : FirstCheckModel(t)
    \/ \E t \in Threads : AcquireLock(t)
    \/ \E t \in Threads : SecondCheck(t)
    \/ \E t \in Threads : ConstructModel(t)
    \/ \E t \in Threads : ConstructFails(t)
    \/ \E t \in Threads : FinishLoad(t)

SpecLoad == InitLoad /\ [][NextLoad]_vars

-----------------------------------------------------------------------------
(* Properties of _load_model *)

AllLoadCallsDone == \A t \in Threads : load_pc[t] = "done"

NoLoadFailed == \A t \in Threads : load_result[t] # "False"

\* C20: whatever the interleaving of the concurrent first calls, the model is
\* never constructed twice; when no construction fails it has been constructed
\* exactly once by the time all calls have returned, and all of them return
\* True; a call that has returned True finds whisper_model set.
C20_ModelConstructedOnce ==
    /\ constructions <= 1
    /\ (AllLoadCallsDone /\ NoLoadFailed)
          => /\ constructions = 1
             /\ \A t \in Threads : load_result[t] = "True"
    /\ \A t \in Threads : load_result[t] = "True" => whisper_model

\* C20 witness: all the concurrent calls returned True, the model having been
\* constructed once and the lock being free again.
C20_Witness ==
    /\ AllLoadCallsDone
    /\ NoLoadFailed
    /\ constructions = 1
    /\ whisper_model /\ model_loaded
    /\ model_lock = 0

-----------------------------------------------------------------------------
(* HybridVoiceTranscriber.transcribe: engine selection and fallback *)

\* self.supported_languages
Languages == {"auto", "en", "cs"}

\* How one engine.transcribe_streaming call may end: it returns the (stripped)
\* transcript, raises an Exception, or is interrupted (KeyboardInterrupt);
\* stop_set tells whether the stop flag was set while it ran.
RunOutcomes ==
    [kind : {"text"}, text : {<<>>, <<"a">>}, stop_set : BOOLEAN]
    \cup [kind : {"exception", "keyboard_interrupt"}, text : {<<>>},
          stop_set : BOOLEAN]

\* The primary call passes language=...; WhisperFallback.transcribe_streaming
\* takes no such parameter, so with Whisper as the primary the call raises
\* TypeError before the session starts.
PrimaryOutcomes(eng) ==
    IF eng = "whisper"
    THEN {[kind |-> "exception", text |-> <<>>, stop_set |-> FALSE]}
    ELSE RunOutcomes

notHybrid == <<capVars, httpVars, txVars, sessVars, loadVars, procVars, daemonVars>>

Notify(msgs) == notifications' = notifications \o msgs

\* Variant that prefers the local engine.
_select_transcription_engine_WhisperFirst ==
    IF whisper_available THEN "whisper"
    ELSE IF hyb_api_key THEN "elevenlabs"
    ELSE "none"

\* _select_transcription_engine
_select_transcription_engine ==
    IF hyb_api_key THEN "elevenlabs"
    ELSE IF whisper_available THEN "whisper"
    ELSE "none"

\* transcribe up to the engine call: selection, initial notification, reset of
\* the stop flag and removal of the stop file.
BeginTranscribe ==
    /\ hyb_pc = "select"
    /\ LET eng == _select_transcription_engine
           selectMsg == IF eng = "whisper" THEN <<"local_no_key">> ELSE <<>>
       IN  /\ current_engine' = eng
           /\ IF eng = "none"
              THEN /\ Notify(<<"no_engines">>)
                   /\ hyb_result' = "False"
                   /\ hyb_pc' = "done"
                   /\ UNCHANGED <<hyb_stop_flag, hyb_stop_file>>
              ELSE /\ Notify(selectMsg \o
                             (IF eng = "elevenlabs" THEN <<"recording_elevenlabs">>
                              ELSE IF ~model_loaded THEN <<"loading_model">>
                              ELSE <<>>))
                   /\ hyb_stop_flag' = FALSE
                   /\ hyb_stop_file' = FALSE
                   /\ hyb_pc' = "primary"
                   /\ UNCHANGED hyb_result
    /\ UNCHANGED <<hyb_api_key, whisper_available, current_language, runs>>
    /\ UNCHANGED notHybrid

\* One engine session, as recorded: the engine, the stop flag at its start,
\* whether the flag was set while it ran, and how it ended.
Run(eng, out) ==
    [engine |-> eng, stop_at_start |-> hyb_stop_flag, stop_set |-> out.stop_set,
     kind |-> out.kind, text |-> out.text]

\* `if self.current_engine == "elevenlabs" and self.whisper.is_available()`
CanFallBack_AnyEngine(eng) == whisper_available

CanFallBack(eng) == eng = "elevenlabs" /\ whisper_available

\* `self.current_engine = "whisper"` in the fallback branch
EngineAfterFallback_Stale(eng) == eng

EngineAfterFallback(eng) == "whisper"

\* `self.stop_flag['stop'] = False  # Reset for retry`
StopFlagForRetry_Kept(flag) == flag

StopFlagForRetry(flag) == FALSE

\* The primary engine.transcribe_streaming call ends by out; transcribe handles
\* the result or the exception.
PrimaryRun(out) ==
    /\ hyb_pc = "primary"
    /\ runs' = Append(runs, Run(current_engine, out))
    /\ LET flag == hyb_stop_flag \/ out.stop_set
       IN  IF out.kind = "text"
           THEN /\ IF Strip(out.text) # <<>>
                   THEN /\ hyb_result' = "True"
                        /\ UNCHANGED notifications
                   ELSE /\ hyb_result' = "False"
                        /\ Notify(<<"no_speech">>)
                /\ hyb_pc' = "done"
                /\ hyb_stop_flag' = flag
                /\ UNCHANGED current_engine
           ELSE IF out.kind = "keyboard_interrupt"
           THEN /\ hyb_stop_flag' = TRUE
                /\ hyb_result' = "False"
                /\ hyb_pc' = "done"
                /\ UNCHANGED <<current_engine, notifications>>
           ELSE IF CanFallBack(current_engine)
           THEN /\ Notify(<<"api_failed_trying_local">>)
                /\ current_engine' = EngineAfterFallback(current_engine)
                /\ hyb_stop_flag' = StopFlagForRetry(flag)
                /\ hyb_pc' = "fallback"
                /\ UNCHANGED hyb_result
           ELSE /\ Notify(<<"failed">>)
                /\ hyb_result' = "False"
                /\ hyb_pc' = "done"
                /\ hyb_stop_flag' = flag
                /\ UNCHANGED current_engine
    /\ UNCHANGED <<hyb_api_key, whisper_available, current_language, hyb_stop_file>>
    /\ UNCHANGED notHybrid

\* The fallback self.whisper.transcribe_streaming call ends by out.
FallbackRun(out) ==
    /\ hyb_pc = "fallback"
    /\ runs' = Append(runs, Run("whisper", out))
    /\ hyb_stop_flag' = (hyb_stop_flag \/ out.stop_set)
    /\ hyb_pc' = "done"
    /\ IF out.kind = "text" /\ Strip(out.text) # <<>>
       THEN /\ hyb_result' = "True"
            /\ UNCHANGED notifications
       ELSE IF out.kind = "keyboard_interrupt"
       THEN /\ hyb_result' = "KeyboardInterrupt"
            /\ UNCHANGED notifications
       ELSE /\ hyb_result' = "False"
            /\ Notify(<<"failed">>)
    /\ UNCHANGED <<current_engine, hyb_api_key, whisper_available,
                   current_language, hyb_stop_file>>
    /\ UNCHANGED notHybrid

\* A HybridVoiceTranscriber at the call of transcribe: the key and Whisper may
\* or may not be there, the flag and the stop file may be left over from an
\* earlier session.
InitHybrid ==
    /\ hyb_pc = "select"
    /\ current_engine = "none"
    /\ hyb_api_key \in BOOLEAN
    /\ whisper_available \in BOOLEAN
    /\ current_language \in Languages
    /\ hyb_stop_flag \in BOOLEAN
    /\ hyb_stop_file \in BOOLEAN
    /\ runs = <<>>
    /\ notifications = <<>>
    /\ hyb_result = "none"
    /\ model_loaded \in BOOLEAN
    /\ whisper_model = model_loaded
    /\ load_pc = <<>>
    /\ model_lock = 0
    /\ constructions = 0
    /\ load_result = <<>>
    /\ CaptureIdle
    /\ HttpIdle
    /\ TextIdle
    /\ SessionIdle
    /\ ProcIdle
    /\ DaemonIdle

NextHybrid ==
    \/ BeginTranscribe
    \/ \E out \in PrimaryOutcomes(current_engine) : PrimaryRun(out)
    \/ \E out \in RunOutcomes : FallbackRun(out)

SpecHybrid == InitHybrid /\ [][NextHybrid]_vars

-----------------------------------------------------------------------------
(* Properties of HybridVoiceTranscriber.transcribe *)

RunRaised(r) == r.kind = "exception"

RunSucceeded(r) == r.kind = "text" /\ Strip(r.text) # <<>>

RunFoundNoSpeech(r) == r.kind = "text" /\ Strip(r.text) = <<>>

\* What transcribe hands its caller for an engine session that ended as r: True
\* for a transcript, False for none or an error, the interrupt itself when the
\* session was interrupted.
OutcomeOf(r) ==
    IF RunSucceeded(r) THEN "True"
    ELSE IF r.kind = "keyboard_interrupt" THEN "KeyboardInterrupt"
    ELSE "False"

\* C14: when the ElevenLabs session raised an Exception and Whisper is
\* available, a Whisper session is run, current_engine is "whisper" from then
\* on, and what transcribe hands its caller is the outcome of the Whisper
\* session.
C14_FallbackToWhisper ==
    (/\ runs # <<>>
     /\ runs[1].engine = "elevenlabs"
     /\ RunRaised(runs[1])
     /\ whisper_available)
    => /\ current_engine = "whisper"
       /\ hyb_pc \in {"fallback", "done"}
       /\ hyb_pc = "done"
             => /\ Len(runs) = 2
                /\ runs[2].engine = "whisper"
                /\ hyb_result = OutcomeOf(runs[2])

\* C14 witness: ElevenLabs raised, the Whisper session returned a transcript
\* and transcribe returned True.
C14_Witness ==
    /\ hyb_pc = "done"
    /\ Len(runs) = 2
    /\ runs[1].engine = "elevenlabs" /\ RunRaised(runs[1])
    /\ runs[2].engine = "whisper" /\ RunSucceeded(runs[2])
    /\ current_engine = "whisper"
    /\ hyb_result = "True"

\* C15: one invocation runs at most two engine sessions; a second session is a
\* Whisper session following an ElevenLabs session that raised, and starts with
\* the stop flag reset; when the fallback session raises, or Whisper was the
\* primary, the invocation ends unsuccessfully with no further session.
C15_AtMostOneFallback ==
    /\ Len(runs) <= 2
    /\ Len(runs) = 2
          => /\ runs[1].engine = "elevenlabs"
             /\ RunRaised(runs[1])
             /\ runs[2].engine = "whisper"
             /\ ~runs[2].stop_at_start
    /\ hyb_pc = "fallback" => ~hyb_stop_flag
    /\ (Len(runs) = 2 /\ RunRaised(runs[2]))
          => (hyb_pc = "done" /\ hyb_result = "False")
    /\ (runs # <<>> /\ runs[1].engine = "whisper")
          => (hyb_pc = "done" /\ Len(runs) = 1 /\ hyb_result = "False")

\* C15 witness: the stop flag was set while the ElevenLabs session ran, that
\* session raised, the Whisper session raised too and transcribe returned False.
C15_Witness ==
    /\ hyb_pc = "done"
    /\ Len(runs) = 2
    /\ RunRaised(runs[1])
    /\ runs[1].stop_set
    /\ ~runs[2].stop_at_start
    /\ RunRaised(runs[2])
    /\ hyb_result = "False"
    /\ notifications[Len(notifications)] = "failed"


\* C31: the engine is selected by fixed priority: ElevenLabs whenever a key is
\* configured, else Whisper whenever it is available, else none; with no
\* engine transcribe returns False with no engine session run and the stop
\* flag as it was.
C31_EngineSelectedByPriority ==
    /\ [][(hyb_pc = "select" /\ hyb_pc' # "select") =>
            /\ hyb_api_key => current_engine' = "elevenlabs"
            /\ (~hyb_api_key /\ whisper_available) => current_engine' = "whisper"
            /\ (~hyb_api_key /\ ~whisper_available) =>
                  /\ current_engine' = "none"
                  /\ hyb_pc' = "done"
                  /\ hyb_result' = "False"
                  /\ runs' = <<>>
                  /\ hyb_stop_flag' = hyb_stop_flag]_vars
    /\ []((~hyb_api_key /\ ~whisper_available) => runs = <<>>)

\* C31 witness: transcribe has returned False with no engine, the stop flag
\* still set as it was at the call.
C31_Witness ==
    /\ hyb_pc = "done"
    /\ ~hyb_api_key /\ ~whisper_available
    /\ current_engine = "none"
    /\ hyb_result = "False"
    /\ hyb_stop_flag
    /\ runs = <<>>

\* C16: when the last engine session of an invocation, primary or fallback,
\* returned an empty transcript without raising, transcribe reports "no speech
\* detected" and no transcription failure.
C16_EmptyTranscriptIsNoSpeech ==
    (/\ hyb_pc = "done"
     /\ runs # <<>>
     /\ RunFoundNoSpeech(runs[Len(runs)]))
    => /\ notifications # <<>>
       /\ notifications[Len(notifications)] = "no_speech"
       /\ \A i \in 1..Len(notifications) : notifications[i] # "failed"

-----------------------------------------------------------------------------
(* Termination of capture_streaming_audio *)

\* The steps of the thread running capture_streaming_audio. Each stream.read
\* and each callback returns, so the thread always takes its next step.
CaptureThreadStep ==
    \/ OpenStream
    \/ OpenFails
    \/ StopByFlag
    \/ StopByFile
    \/ ReadError
    \/ \E data \in Volumes : ReadFrame(data)
    \/ LoopExhausted
    \/ FinalFlush

SpecCaptureLive ==
    InitCapture /\ [][NextCapture]_vars /\ WF_vars(CaptureThreadStep)

\* C18: whatever the frames, the read errors and the moment of the stop
\* signal, the loop never goes beyond max_frames iterations and the function
\* eventually returns with the device stream closed.
C18_CaptureTerminates ==
    /\ [](frame_count <= max_frames)
    /\ <>(cap_pc = "done" /\ stream # "open")

\* C18 witness: a capture that had a read error, ran to the maximum duration
\* and returned with its stream closed.
C18_Witness ==
    /\ cap_pc = "done"
    /\ stream = "closed"
    /\ read_errors > 0
    /\ frame_count = max_frames
    /\ exit_reason = "max_duration"

\* C33: a failed read leaves the phrase buffer, the silence counter and the
\* speech-started flag as they were and the loop goes on; a capture in which
\* every read fails runs its max_frames iterations, ends by maximum duration
\* with no phrase passed to the callback, and returns.
C33_ReadErrorLeavesPhraseState ==
    /\ [][read_errors' # read_errors =>
            /\ phrase_frames' = phrase_frames
            /\ silence_frames' = silence_frames
            /\ recording_started' = recording_started
            /\ all_frames' = all_frames
            /\ callbacks' = callbacks
            /\ cap_pc' = "loop"]_vars
    /\ []((read_errors = max_frames /\ cap_pc \in {"after_loop", "done"})
            => (callbacks = <<>> /\ exit_reason = "max_duration"))
    /\ (cap_pc = "loop" /\ read_errors = frame_count) ~> (cap_pc = "done")

\* C33 witness: every read of the session failed and the capture returned.
C33_Witness ==
    /\ cap_pc = "done"
    /\ read_errors = max_frames
    /\ all_frames = <<>>
    /\ callbacks = <<>>

-----------------------------------------------------------------------------
(* AssemblyAITranscriber.transcribe_streaming: the calling thread, the     *)
(* timeout_monitor thread, the recorder subprocess and the remote client   *)

\* Chunks audio_generator yields in one session.
MaxSent == 2

\* max_duration of timeout_monitor, in ticks of the model's clock.
monitor_max_duration == 1

\* self.silence_timeout, in ticks of the model's clock: shorter than the
\* maximum duration, as 5 s is shorter than 300 s.
silence_timeout == 0

\* Turn events delivered in these sessions: a partial and a final formatted
\* turn carrying the same words.
SessionTurnEvents ==
    {ev \in TurnEvents : ev.transcript = <<"a">> /\ ev.end_of_turn = ev.turn_is_formatted}

\* Fields of the session the steps below leave alone.
sessionTextVars == <<engine, full_text, committed, callback_log, injected,
                     is_streaming, last_turn_time, now, chunks_seen, turns_seen,
                     chunk_replies>>

notSession == <<httpVars, hybVars, loadVars, procVars, daemonVars>>

captureOnlyVars == <<cap_pc, frame_count, all_frames, phrase_frames, silence_frames,
                     recording_started, callbacks, exit_reason, read_errors, stream>>

\* recorder_process.terminate() under `if self.recorder_process`
TerminateRecorder_Skipped == recorder_process

TerminateRecorder ==
    IF recorder_process = "none" THEN "none" ELSE "terminated"

\* `if not self._recorder_cmd: return ""`
MissingRecorder ==
    /\ tx_pc = "connected"
    /\ ~recorder_cmd
    /\ returned' = Str(<<>>)
    /\ tx_pc' = "returned"
    /\ UNCHANGED <<remote, stop_streaming>>
    /\ UNCHANGED sessionTextVars
    /\ UNCHANGED sessVars
    /\ UNCHANGED <<capVars, notSession>>

\* An exception between connect and the streaming block: the outer
\* `except Exception` disconnects and returns the transcript.
SetupRaises ==
    /\ tx_pc = "connected"
    /\ recorder_cmd
    /\ client' = "disconnected"
    /\ remote' = "closed"
    /\ returned' = Str(Strip(full_text))
    /\ tx_pc' = "returned"
    /\ UNCHANGED stop_streaming
    /\ UNCHANGED sessionTextVars
    /\ UNCHANGED <<monitor_pc, recorder_process, recorder_cmd, start_time, frames_sent, gen_pc>>
    /\ UNCHANGED <<capVars, notSession>>

\* `self.stop_streaming = threading.Event()`, monitor_thread.start()
StartMonitor ==
    /\ tx_pc = "connected"
    /\ recorder_cmd
    /\ stop_streaming' = "clear"
    /\ monitor_pc' = "poll"
    /\ start_time' = now
    /\ tx_pc' = "spawn"
    /\ UNCHANGED <<remote, returned>>
    /\ UNCHANGED sessionTextVars
    /\ UNCHANGED <<client, recorder_process, recorder_cmd, frames_sent, gen_pc>>
    /\ UNCHANGED <<capVars, notSession>>

\* subprocess.Popen(self._recorder_cmd, ...) succeeds; client.stream starts.
SpawnRecorder ==
    /\ tx_pc = "spawn"
    /\ recorder_process' = "running"
    /\ tx_pc' = "streaming"
    /\ UNCHANGED <<remote, returned, stop_streaming>>
    /\ UNCHANGED sessionTextVars
    /\ UNCHANGED <<monitor_pc, client, recorder_cmd, start_time, frames_sent, gen_pc>>
    /\ UNCHANGED <<capVars, notSession>>

\* subprocess.Popen raises: `except Exception`, then `finally`.
SpawnFails ==
    /\ tx_pc = "spawn"
    /\ tx_pc' = "finally"
    /\ UNCHANGED <<remote, returned, stop_streaming>>
    /\ UNCHANGED sessionTextVars
    /\ UNCHANGED sessVars
    /\ UNCHANGED <<capVars, notSession>>

\* audio_generator: `while not self.stop_streaming.is_set()`
GeneratorContinues_IgnoresStop == TRUE

GeneratorContinues == stop_streaming # "set"

\* The loop test passes and `self.recorder_process.stdout.read(...)` starts.
GeneratorRead ==
    /\ tx_pc = "streaming"
    /\ gen_pc = "top"
    /\ GeneratorContinues
    /\ gen_pc' = "reading"
    /\ UNCHANGED <<tx_pc, remote, returned, stop_streaming>>
    /\ UNCHANGED sessionTextVars
    /\ UNCHANGED <<monitor_pc, client, recorder_process, recorder_cmd, start_time,
                   frames_sent>>
    /\ UNCHANGED <<capVars, notSession>>

\* The read returns a full chunk, which is yielded.
GeneratorYield ==
    /\ tx_pc = "streaming"
    /\ gen_pc = "reading"
    /\ recorder_process = "running"
    /\ frames_sent < MaxSent
    /\ frames_sent' = frames_sent + 1
    /\ gen_pc' = "top"
    /\ UNCHANGED <<tx_pc, remote, returned, stop_streaming>>
    /\ UNCHANGED sessionTextVars
    /\ UNCHANGED <<monitor_pc, client, recorder_process, recorder_cmd, start_time>>
    /\ UNCHANGED <<capVars, notSession>>

\* audio_generator ends (the loop test finds the stop event set, or the read
\* returns short because the recorder's output ended): its `finally`
\* terminates the recorder and client.stream returns.
GeneratorEnds ==
    /\ tx_pc = "streaming"
    /\ \/ gen_pc = "top" /\ ~GeneratorContinues
       \/ gen_pc = "reading" /\ recorder_process # "running"
    /\ recorder_process' = TerminateRecorder
    /\ tx_pc' = "finally"
    /\ UNCHANGED <<remote, returned, stop_streaming>>
    /\ UNCHANGED sessionTextVars
    /\ UNCHANGED <<monitor_pc, client, recorder_cmd, start_time, frames_sent, gen_pc>>
    /\ UNCHANGED <<capVars, notSession>>

\* client.stream raises (or KeyboardInterrupt): the `except` clauses, then
\* `finally`.
StreamRaises ==
    /\ tx_pc = "streaming"
    /\ tx_pc' = "finally"
    /\ UNCHANGED <<remote, returned, stop_streaming>>
    /\ UNCHANGED sessionTextVars
    /\ UNCHANGED sessVars
    /\ UNCHANGED <<capVars, notSession>>

\* `finally`: set the stop event, terminate the recorder.
FinallyCleanup ==
    /\ tx_pc = "finally"
    /\ stop_streaming' = "set"
    /\ recorder_process' = TerminateRecorder
    /\ tx_pc' = "join"
    /\ UNCHANGED <<remote, returned>>
    /\ UNCHANGED sessionTextVars
    /\ UNCHANGED <<monitor_pc, client, recorder_cmd, start_time, frames_sent, gen_pc>>
    /\ UNCHANGED <<capVars, notSession>>

\* monitor_thread.join(timeout=2) returns, client.disconnect(terminate=True),
\* `self.recorder_process = None`, `return self.full_text.strip()`.
JoinAndReturn ==
    /\ tx_pc = "join"
    /\ client' = "disconnected"
    /\ remote' = "closed"
    /\ recorder_process' = IF recorder_process = "running" THEN "running" ELSE "none"
    /\ returned' = Str(Strip(full_text))
    /\ tx_pc' = "returned"
    /\ UNCHANGED stop_streaming
    /\ UNCHANGED sessionTextVars
    /\ UNCHANGED <<monitor_pc, recorder_cmd, start_time, frames_sent, gen_pc>>
    /\ UNCHANGED <<capVars, notSession>>

\* The four checks of one timeout_monitor poll, in the order of the code.
MaxDurationElapsed == now - start_time > monitor_max_duration

SilenceTimedOut_IgnoresTranscript == now - last_turn_time > silence_timeout

SilenceTimedOut ==
    now - last_turn_time > silence_timeout /\ Strip(full_text) # <<>>

MonitorTriggered_IgnoresStopFile ==
    MaxDurationElapsed \/ SilenceTimedOut \/ stop_flag

MonitorTriggered ==
    MaxDurationElapsed \/ SilenceTimedOut \/ stop_flag \/ stop_file

\* One round of `while not self.stop_streaming.is_set()`: leave if the event
\* is set; otherwise sleep 0.5 and run the checks.
MonitorPoll ==
    /\ monitor_pc = "poll"
    /\ IF stop_streaming = "set"
       THEN /\ monitor_pc' = "cleanup"
            /\ UNCHANGED stop_streaming
       ELSE IF MonitorTriggered
       THEN /\ stop_streaming' = "set"
            /\ monitor_pc' = "cleanup"
       ELSE UNCHANGED <<monitor_pc, stop_streaming>>
    /\ UNCHANGED <<tx_pc, remote, returned>>
    /\ UNCHANGED sessionTextVars
    /\ UNCHANGED <<client, recorder_process, recorder_cmd, start_time, frames_sent, gen_pc>>
    /\ UNCHANGED <<capVars, notSession>>

\* "Disconnect when stopped": terminate the recorder, disconnect the client.
MonitorCleanup ==
    /\ monitor_pc = "cleanup"
    /\ recorder_process' = TerminateRecorder
    /\ client' = "disconnected"
    /\ remote' = "closed"
    /\ monitor_pc' = "done"
    /\ UNCHANGED <<tx_pc, returned, stop_streaming>>
    /\ UNCHANGED sessionTextVars
    /\ UNCHANGED <<recorder_cmd, start_time, frames_sent, gen_pc>>
    /\ UNCHANGED <<capVars, notSession>>

\* Variant in which the end of the recorder also sets the stop event.
RecorderExits_SetsStopEvent ==
    /\ recorder_process = "running"
    /\ tx_pc = "streaming"
    /\ recorder_process' = "exited"
    /\ stop_streaming' = "set"
    /\ UNCHANGED <<tx_pc, remote, returned>>
    /\ UNCHANGED sessionTextVars
    /\ UNCHANGED <<monitor_pc, client, recorder_cmd, start_time, frames_sent, gen_pc>>
    /\ UNCHANGED <<capVars, notSession>>

\* The recorder subprocess ends by itself: its output reaches end of file.
RecorderExits ==
    /\ recorder_process = "running"
    /\ tx_pc = "streaming"
    /\ recorder_process' = "exited"
    /\ UNCHANGED <<tx_pc, remote, returned, stop_streaming>>
    /\ UNCHANGED sessionTextVars
    /\ UNCHANGED <<monitor_pc, client, recorder_cmd, start_time, frames_sent, gen_pc>>
    /\ UNCHANGED <<capVars, notSession>>

\* The signal handler sets stop_flag['stop'] during the session.
SessionSetStopFlag ==
    /\ tx_pc \in {"connected", "spawn", "streaming"}
    /\ ~stop_flag
    /\ stop_flag' = TRUE
    /\ UNCHANGED <<stop_file, captureOnlyVars>>
    /\ UNCHANGED <<txVars, sessVars, notSession>>

\* Another process creates /tmp/voice_transcription_stop.flag.
SessionCreateStopFile ==
    /\ tx_pc \in {"connected", "spawn", "streaming"}
    /\ ~stop_file
    /\ stop_file' = TRUE
    /\ UNCHANGED <<stop_flag, captureOnlyVars>>
    /\ UNCHANGED <<txVars, sessVars, notSession>>

\* transcribe_streaming just after client.connect(params) succeeded. On a
\* fresh transcriber self.stop_streaming is None; on one reused after an
\* earlier session it is that session's event, left set by its `finally`.
InitSession ==
    /\ tx_pc = "connected"
    /\ engine = "assemblyai"
    /\ remote = "connected"
    /\ full_text = <<>>
    /\ committed = <<>>
    /\ callback_log = <<>>
    /\ injected = <<>>
    /\ returned = None
    /\ is_streaming = FALSE
    /\ last_turn_time = 0
    /\ now = 0
    /\ stop_streaming \in {"none", "set"}
    /\ chunks_seen = 0
    /\ turns_seen = 0
    /\ chunk_replies = <<>>
    /\ monitor_pc = "none"
    /\ client = "connected"
    /\ recorder_process = "none"
    /\ recorder_cmd \in BOOLEAN
    /\ start_time = 0
    /\ frames_sent = 0
    /\ gen_pc = "top"
    /\ CaptureIdle
    /\ HttpIdle
    /\ HybridIdle
    /\ LoadIdle
    /\ ProcIdle
    /\ DaemonIdle

\* Steps the thread that called transcribe_streaming takes by itself. The
\* steps in which a call raises (SetupRaises, SpawnFails, StreamRaises) are
\* left out: nothing guarantees that they ever happen.
SessionThreadStep ==
    \/ MissingRecorder
    \/ StartMonitor
    \/ SpawnRecorder
    \/ GeneratorRead
    \/ GeneratorYield
    \/ GeneratorEnds
    \/ FinallyCleanup
    \/ JoinAndReturn

\* Steps of the timeout_monitor thread.
MonitorThreadStep == MonitorPoll \/ MonitorCleanup

NextSession ==
    \/ MissingRecorder
    \/ SetupRaises
    \/ StartMonitor
    \/ SpawnRecorder
    \/ SpawnFails
    \/ GeneratorRead
    \/ GeneratorYield
    \/ GeneratorEnds
    \/ StreamRaises
    \/ FinallyCleanup
    \/ JoinAndReturn
    \/ MonitorPoll
    \/ MonitorCleanup
    \/ RecorderExits
    \/ SessionSetStopFlag
    \/ SessionCreateStopFile
    \/ OnBegin
    \/ \E ev \in SessionTurnEvents : OnTurn(ev)
    \/ OnTerminated
    \/ OnError
    \/ Tick

SpecSession == InitSession /\ [][NextSession]_vars

\* Both threads keep running: neither starves while it has a step to take.
SpecSessionLive ==
    /\ InitSession
    /\ [][NextSession]_vars
    /\ WF_vars(SessionThreadStep)
    /\ WF_vars(MonitorThreadStep)

-----------------------------------------------------------------------------
(* Properties of AssemblyAITranscriber.transcribe_streaming *)

SessionReturned ==
    tx_pc = "returned" /\ returned = Str(Strip(full_text))

\* C17: whenever transcribe_streaming has returned after a successful
\* connect, the client has been disconnected and no recorder subprocess is
\* left running.
C17_ResourcesReleasedOnReturn ==
    tx_pc = "returned" => (client = "disconnected" /\ recorder_process # "running")

\* C19: a poll of the watchdog that finds the stop flag set or the stop marker
\* present sets the stop event; once the event is set audio_generator starts
\* no further read (at most the chunk being read is still yielded); and a
\* session that is streaming when the stop flag is
\* set, the stop marker exists or the maximum duration has elapsed eventually
\* returns the transcript committed so far.
C19_StopReachesSession ==
    /\ [][(MonitorPoll /\ (stop_flag \/ stop_file \/ MaxDurationElapsed))
            => stop_streaming' = "set"]_vars
    /\ [][stop_streaming = "set" => ~(gen_pc = "top" /\ gen_pc' = "reading")]_vars
    /\ (tx_pc = "streaming" /\ (stop_flag \/ stop_file \/ MaxDurationElapsed))
          ~> SessionReturned

\* C19 witness: a session stopped by the stop marker alone, after a chunk was
\* sent and a segment committed, has returned that segment.
C19_Witness ==
    /\ tx_pc = "returned"
    /\ stop_file /\ ~stop_flag
    /\ ~MaxDurationElapsed
    /\ monitor_pc = "done"
    /\ frames_sent > 0
    /\ committed # <<>>
    /\ returned = Str(Strip(full_text))
    /\ returned.text # <<>>

\* The stop event goes from not set to set in this step.
StopEventSet == stop_streaming # "set" /\ stop_streaming' = "set"

\* A termination or error event has been delivered: the remote side is closed
\* and the client has not been disconnected by the engine.
RemoteEndDelivered == remote = "closed" /\ client = "connected"

\* C24 (as stated): during a session only the watchdog sets the stop event.
C24_OnlyWatchdogSetsStopEvent ==
    [][StopEventSet => MonitorPoll]_vars

\* C24 (amended): the stop event is set only by the watchdog, by the
\* termination and error handlers, and by the `finally` block of
\* transcribe_streaming; the handlers set it only when it exists.
C24_WritersOfStopEvent ==
    /\ [][StopEventSet => (MonitorPoll \/ OnTerminated \/ OnError \/ FinallyCleanup)]_vars
    /\ [][stop_streaming = "none" => stop_streaming' # "set"]_vars

\* C24 witness: the stop event set by a handler, while the watchdog has not
\* triggered and the streaming block has not reached its `finally`.
C24_Witness ==
    /\ tx_pc = "streaming"
    /\ monitor_pc = "poll"
    /\ stop_streaming = "set"
    /\ RemoteEndDelivered
    /\ ~MonitorTriggered

\* C25: once a termination or error event has been delivered after
\* client.connect, the stop event of the current session is set for as long
\* as the session runs.
C25_RemoteEndSignalsSession ==
    (RemoteEndDelivered /\ tx_pc \in {"spawn", "streaming"}) => stop_streaming = "set"

\* The watchdog sets the stop event in this step although neither the maximum
\* duration has elapsed nor the stop flag is set nor the stop marker exists:
\* the silence check fired.
SilenceStop ==
    /\ MonitorPoll
    /\ StopEventSet
    /\ ~MaxDurationElapsed /\ ~stop_flag /\ ~stop_file

\* The streaming block is left in this step with an empty transcript.
EndsWithEmptyTranscript ==
    tx_pc = "streaming" /\ tx_pc' = "finally" /\ Strip(full_text) = <<>>

\* C38 (as stated): the silence timeout stops the session only after a final
\* segment has been committed, and while the transcript is empty the session
\* ends only through the maximum duration, the stop flag, the stop marker or
\* a termination or error event of the remote side.
C38_EmptySessionEndsOnlyByListedCauses ==
    /\ [][SilenceStop => (committed # <<>> /\ Strip(full_text) # <<>>)]_vars
    /\ [][EndsWithEmptyTranscript
            => (MaxDurationElapsed \/ stop_flag \/ stop_file \/ remote = "closed")]_vars

\* C38 (amended): the silence timeout stops the session only after a final
\* segment has been committed, and while the transcript is empty the session
\* ends only through the maximum duration, the stop flag, the stop marker, a
\* termination or error event of the remote side, the end of the recorder's
\* output, or an exception raised while streaming.
C38_SilenceStopNeedsTranscript ==
    /\ [][SilenceStop => (committed # <<>> /\ Strip(full_text) # <<>>)]_vars
    /\ [][EndsWithEmptyTranscript
            => \/ MaxDurationElapsed \/ stop_flag \/ stop_file \/ remote = "closed"
               \/ (gen_pc = "reading" /\ recorder_process # "running")
               \/ StreamRaises]_vars

\* C38 witness: the watchdog has stopped a session on silence alone, after a
\* segment was committed, and the session has returned that segment.
C38_Witness ==
    /\ tx_pc = "returned"
    /\ monitor_pc = "done"
    /\ ~MaxDurationElapsed /\ ~stop_flag /\ ~stop_file
    /\ now - last_turn_time > silence_timeout
    /\ committed # <<>>
    /\ returned.text # <<>>
    /\ recorder_process # "exited"

-----------------------------------------------------------------------------
(* Properties of the segmenter of capture_streaming_audio *)

\* Number of frames at the end of frames that are not classified as speech.
RECURSIVE TrailingSilence(_)
TrailingSilence(frames) ==
    IF frames = <<>> \/ IsSpeech(frames[Len(frames)])
    THEN 0
    ELSE 1 + TrailingSilence(SubSeq(frames, 1, Len(frames) - 1))

\* The step reads one frame into the buffers.
FrameRead == all_frames' # all_frames

NewFrame == all_frames'[Len(all_frames')]

\* The step invokes the callback at a phrase boundary.
BoundaryEmitted ==
    /\ callbacks' # callbacks
    /\ callbacks'[Len(callbacks')].path = "boundary"

\* C26: a step of the loop emits a phrase at a boundary exactly when the frame
\* it read is silence after speech has started, brings the silence-run counter
\* to short_pause_frames and the phrase buffer to at least min_phrase_frames;
\* the emitted phrase is the buffer with that frame, the buffer is empty
\* afterwards and the loop goes on.
C26_BoundaryExactlyAtShortPause ==
    [][FrameRead =>
         /\ BoundaryEmitted <=>
               (/\ ~IsSpeech(NewFrame)
                /\ recording_started
                /\ silence_frames + 1 = short_pause_frames
                /\ Len(phrase_frames) + 1 >= min_phrase_frames)
         /\ BoundaryEmitted =>
               /\ callbacks' = Append(callbacks,
                                      Call(Append(phrase_frames, NewFrame), "boundary"))
               /\ phrase_frames' = <<>>
               /\ cap_pc' = "loop"
               /\ exit_reason' = "none"]_vars

\* C26 witness: a phrase was emitted at a boundary and frames were read after
\* it, the loop still running.
C26_Witness ==
    /\ cap_pc = "loop"
    /\ Len(callbacks) = 1
    /\ callbacks[1].path = "boundary"
    /\ phrase_frames # <<>>
    /\ Len(all_frames) > Len(callbacks[1].frames)

\* C27: once speech has started the silence-run counter is the number of
\* silence frames read since the last speech frame; the session has ended by
\* long pause exactly when that number exceeds long_pause_frames, which it
\* then does by one (the loop stopped on the first such frame).
C27_LongPauseEndsSession ==
    /\ recording_started => silence_frames = TrailingSilence(all_frames)
    /\ exit_reason = "long_pause"
          <=> (recording_started /\ TrailingSilence(all_frames) > long_pause_frames)
    /\ exit_reason = "long_pause"
          => TrailingSilence(all_frames) = long_pause_frames + 1

\* C27 witness: a session ended by long pause during whose last silence run a
\* phrase boundary had been emitted.
C27_Witness ==
    /\ exit_reason = "long_pause"
    /\ callbacks # <<>>
    /\ callbacks[1].path = "boundary"
    /\ Len(all_frames) = Len(callbacks[1].frames) + long_pause_frames + 1
                            - short_pause_frames

\* C27 second witness: a session ended by long pause with no boundary emitted
\* in the silence run (the phrase was under-length at the short pause).
C27_WitnessNoBoundary ==
    /\ exit_reason = "long_pause"
    /\ cap_pc = "after_loop"
    /\ callbacks = <<>>

\* The step on which the silence run reaches short_pause_frames with an
\* under-length phrase buffer.
UnderLengthAtShortPause ==
    /\ FrameRead
    /\ ~IsSpeech(NewFrame)
    /\ recording_started
    /\ silence_frames + 1 = short_pause_frames
    /\ Len(phrase_frames) + 1 < min_phrase_frames

\* C28: when the silence run reaches short_pause_frames with an under-length
\* buffer nothing is emitted and the frame joins the buffer; the buffer is only
\* ever extended by the frame read or emptied by a callback; and every phrase
\* emitted at a boundary ends with exactly short_pause_frames silence frames
\* that follow a speech frame of the same phrase, so no boundary falls later
\* in a silence run that began under-length.
C28_UnderLengthPhraseNotSplit ==
    /\ [][UnderLengthAtShortPause =>
            /\ callbacks' = callbacks
            /\ phrase_frames' = Append(phrase_frames, NewFrame)]_vars
    /\ [][\/ phrase_frames' = phrase_frames
          \/ FrameRead /\ phrase_frames' = Append(phrase_frames, NewFrame)
          \/ phrase_frames' = <<>> /\ callbacks' # callbacks]_vars
    /\ [](\A i \in 1..Len(callbacks) :
            callbacks[i].path = "boundary"
            => /\ TrailingSilence(callbacks[i].frames) = short_pause_frames
               /\ Len(callbacks[i].frames) > short_pause_frames)

\* C28 witness: one speech frame, a pause of short_pause_frames, one more
\* speech frame and a second pause were emitted as a single phrase.
C28_Witness ==
    /\ Len(callbacks) = 1
    /\ callbacks[1].path = "boundary"
    /\ LET f == callbacks[1].frames
       IN  /\ Len(f) = 2 * short_pause_frames + 2
           /\ IsSpeech(f[1])
           /\ \A i \in 2..(short_pause_frames + 1) : ~IsSpeech(f[i])
           /\ IsSpeech(f[short_pause_frames + 2])
    /\ short_pause_frames + 1 < min_phrase_frames

\* C29: a frame counts as speech exactly when its volume is at or above the
\* silence threshold: speech has started as soon as such a frame was read, and
\* after such a frame the silence-run counter is zero.
C29_ThresholdFrameIsSpeech ==
    /\ recording_started
          <=> \E i \in 1..Len(all_frames) :
                 _calculate_volume(all_frames[i]) >= silence_threshold
    /\ (/\ all_frames # <<>>
        /\ _calculate_volume(all_frames[Len(all_frames)]) >= silence_threshold)
          => silence_frames = 0

\* C30: while no speech frame has been read the phrase buffer is empty, and
\* the first emitted phrase starts with a speech frame.
C30_BufferEmptyBeforeSpeech ==
    /\ (cap_pc = "loop" /\ ~recording_started) => phrase_frames = <<>>
    /\ callbacks # <<>> => IsSpeech(callbacks[1].frames[1])

-----------------------------------------------------------------------------
(* The command-line processes of voice_transcription.py. Each process runs *)
(* VoiceTranscriber.transcribe or VoiceTranscriber.stop_recording once and *)
(* exits. The lock file and the stop marker are shared by all processes;   *)
(* self.stop_flag belongs to the process that holds it. The file           *)
(* operations of _acquire_lock and _release_lock are separate steps, as    *)
(* they are separate system calls.                                         *)

\* Processes started during the run.
NumProcs == 3

Procs == 1..NumProcs

\* PID left in the lock file by a process that was killed.
StalePid == NumProcs + 1

\* os.kill(old_pid, 0) succeeds: the process exists.
Alive(pid) == pid \in Procs /\ proc_pc[pid] \notin {"idle", "done"}

notProc == <<httpVars, txVars, sessVars, hybVars, loadVars, daemonVars>>

\* The command of process p ends.
Finish(p, how) ==
    /\ proc_pc' = [proc_pc EXCEPT ![p] = "done"]
    /\ proc_exit' = [proc_exit EXCEPT ![p] = how]

\* transcribe starts; _acquire_lock: `if os.path.exists(self.lock_file)`
LockExists(p) ==
    /\ proc_pc[p] = "idle"
    /\ proc_pc' = [proc_pc EXCEPT ![p] = IF lock_file # 0 THEN "acq_read" ELSE "acq_write"]
    /\ UNCHANGED <<lock_file, proc_stop_flag, old_pid, proc_exit, stop_pending>>
    /\ UNCHANGED <<capVars, notProc>>

\* `old_pid = int(f.read().strip())`; a file removed meanwhile raises, and
\* `except Exception` returns False.
LockRead(p) ==
    /\ proc_pc[p] = "acq_read"
    /\ IF lock_file = 0
       THEN /\ Finish(p, "lock_error")
            /\ UNCHANGED old_pid
       ELSE /\ old_pid' = [old_pid EXCEPT ![p] = lock_file]
            /\ proc_pc' = [proc_pc EXCEPT ![p] = "acq_kill"]
            /\ UNCHANGED proc_exit
    /\ UNCHANGED <<lock_file, proc_stop_flag, stop_pending>>
    /\ UNCHANGED <<capVars, notProc>>

\* `os.kill(old_pid, 0)`: return False if the process exists, else the lock
\* file is stale.
LockProbe(p) ==
    /\ proc_pc[p] = "acq_kill"
    /\ IF Alive(old_pid[p])
       THEN Finish(p, "busy")
       ELSE /\ proc_pc' = [proc_pc EXCEPT ![p] = "acq_remove"]
            /\ UNCHANGED proc_exit
    /\ UNCHANGED <<lock_file, proc_stop_flag, old_pid, stop_pending>>
    /\ UNCHANGED <<capVars, notProc>>

\* `os.remove(self.lock_file)` of the stale file: it removes whatever file is
\* there now; if there is none it raises and `except Exception` returns False.
LockRemoveStale(p) ==
    /\ proc_pc[p] = "acq_remove"
    /\ IF lock_file = 0
       THEN /\ Finish(p, "lock_error")
            /\ UNCHANGED lock_file
       ELSE /\ lock_file' = 0
            /\ proc_pc' = [proc_pc EXCEPT ![p] = "acq_write"]
            /\ UNCHANGED proc_exit
    /\ UNCHANGED <<proc_stop_flag, old_pid, stop_pending>>
    /\ UNCHANGED <<capVars, notProc>>

\* `f.write(str(os.getpid()))`, `return True`: the recording section begins.
LockWrite(p) ==
    /\ proc_pc[p] = "acq_write"
    /\ lock_file' = p
    /\ proc_pc' = [proc_pc EXCEPT ![p] = "check_api"]
    /\ UNCHANGED <<proc_stop_flag, old_pid, proc_exit, stop_pending>>
    /\ UNCHANGED <<capVars, notProc>>

\* _check_api_availability(); when available: `self.stop_flag['stop'] = False`
\* and `if os.path.exists(self.stop_file)`.
CheckApi(p) ==
    /\ proc_pc[p] = "check_api"
    /\ \E available \in BOOLEAN :
         IF available
         THEN /\ proc_stop_flag' = [proc_stop_flag EXCEPT ![p] = FALSE]
              /\ proc_pc' = [proc_pc EXCEPT ![p] =
                                 IF stop_file THEN "reset_remove" ELSE "recording"]
              /\ UNCHANGED proc_exit
         ELSE /\ proc_exit' = [proc_exit EXCEPT ![p] = "unavailable"]
              /\ proc_pc' = [proc_pc EXCEPT ![p] = "rel_exists"]
              /\ UNCHANGED proc_stop_flag
    /\ UNCHANGED <<lock_file, old_pid, stop_pending>>
    /\ UNCHANGED <<capVars, notProc>>

\* `os.remove(self.stop_file)`; a marker removed meanwhile raises and the
\* outer `except Exception` ends the command.
ResetRemove(p) ==
    /\ proc_pc[p] = "reset_remove"
    /\ IF stop_file
       THEN /\ stop_file' = FALSE
            /\ proc_pc' = [proc_pc EXCEPT ![p] = "recording"]
            /\ UNCHANGED proc_exit
       ELSE /\ proc_exit' = [proc_exit EXCEPT ![p] = "error"]
            /\ proc_pc' = [proc_pc EXCEPT ![p] = "rel_exists"]
            /\ UNCHANGED stop_file
    /\ UNCHANGED <<captureOnlyVars, stop_flag>>
    /\ UNCHANGED <<lock_file, proc_stop_flag, old_pid, stop_pending>>
    /\ UNCHANGED notProc

\* The engine's poll finds the process's stop flag set or the stop marker
\* present and the engine run ends by the external-stop path.
EngineStops(p) ==
    /\ proc_pc[p] = "recording"
    /\ proc_stop_flag[p] \/ stop_file
    /\ proc_exit' = [proc_exit EXCEPT ![p] = "external_stop"]
    /\ proc_pc' = [proc_pc EXCEPT ![p] = "rel_exists"]
    /\ UNCHANGED <<lock_file, proc_stop_flag, old_pid, stop_pending>>
    /\ UNCHANGED <<capVars, notProc>>

\* The engine run ends by itself (long pause, silence timeout, maximum
\* duration).
EngineEnds(p) ==
    /\ proc_pc[p] = "recording"
    /\ proc_exit' = [proc_exit EXCEPT ![p] = "natural"]
    /\ proc_pc' = [proc_pc EXCEPT ![p] = "rel_exists"]
    /\ UNCHANGED <<lock_file, proc_stop_flag, old_pid, stop_pending>>
    /\ UNCHANGED <<capVars, notProc>>

\* `finally`: _release_lock: `if os.path.exists(self.lock_file)`
ReleaseExists(p) ==
    /\ proc_pc[p] = "rel_exists"
    /\ proc_pc' = [proc_pc EXCEPT ![p] = IF lock_file # 0 THEN "rel_read" ELSE "done"]
    /\ UNCHANGED <<lock_file, proc_stop_flag, old_pid, proc_exit, stop_pending>>
    /\ UNCHANGED <<capVars, notProc>>

\* `lock_pid = int(f.read().strip())`, `if lock_pid == os.getpid()`;
\* FileNotFoundError is passed over.
ReleaseRead(p) ==
    /\ proc_pc[p] = "rel_read"
    /\ IF lock_file = 0
       THEN /\ proc_pc' = [proc_pc EXCEPT ![p] = "done"]
            /\ UNCHANGED old_pid
       ELSE /\ old_pid' = [old_pid EXCEPT ![p] = lock_file]
            /\ proc_pc' = [proc_pc EXCEPT ![p] =
                               IF lock_file = p THEN "rel_remove" ELSE "done"]
    /\ UNCHANGED <<lock_file, proc_stop_flag, proc_exit, stop_pending>>
    /\ UNCHANGED <<capVars, notProc>>

\* `os.remove(self.lock_file)`
ReleaseRemove(p) ==
    /\ proc_pc[p] = "rel_remove"
    /\ lock_file' = 0
    /\ proc_pc' = [proc_pc EXCEPT ![p] = "done"]
    /\ UNCHANGED <<proc_stop_flag, old_pid, proc_exit, stop_pending>>
    /\ UNCHANGED <<capVars, notProc>>

\* stop_recording starts: the stop marker is written and the process's own
\* stop flag set; `if os.path.exists(self.lock_file)`. stop_pending records
\* the sessions that are recording at this moment.
StopWrite(p) ==
    /\ proc_pc[p] = "idle"
    /\ stop_file' = TRUE
    /\ proc_stop_flag' = [proc_stop_flag EXCEPT ![p] = TRUE]
    /\ stop_pending' = stop_pending \cup {q \in Procs : proc_pc[q] = "recording"}
    /\ IF lock_file # 0
       THEN /\ proc_pc' = [proc_pc EXCEPT ![p] = "stop_remove"]
            /\ UNCHANGED proc_exit
       ELSE Finish(p, "stopped")
    /\ UNCHANGED <<captureOnlyVars, stop_flag>>
    /\ UNCHANGED <<lock_file, old_pid>>
    /\ UNCHANGED notProc

\* "Remove lock file immediately so a new session can start":
\* `os.remove(self.lock_file)`, errors passed over.
StopLockRemove(p) ==
    /\ proc_pc[p] = "stop_remove"
    /\ lock_file' = 0
    /\ Finish(p, "stopped")
    /\ UNCHANGED <<proc_stop_flag, old_pid, stop_pending>>
    /\ UNCHANGED <<capVars, notProc>>

\* No process started yet; the lock file is absent or left by a killed
\* process; the stop marker may be left from an earlier stop command (no
\* engine removes it).
InitCli ==
    /\ proc_pc = [p \in Procs |-> "idle"]
    /\ lock_file \in {0, StalePid}
    /\ proc_stop_flag = [p \in Procs |-> FALSE]
    /\ old_pid = [p \in Procs |-> 0]
    /\ proc_exit = [p \in Procs |-> "none"]
    /\ stop_pending = {}
    /\ stop_file \in BOOLEAN
    /\ cap_pc = "idle"
    /\ frame_count = 0
    /\ all_frames = <<>>
    /\ phrase_frames = <<>>
    /\ silence_frames = 0
    /\ recording_started = FALSE
    /\ stop_flag = FALSE
    /\ callbacks = <<>>
    /\ exit_reason = "none"
    /\ read_errors = 0
    /\ stream = "none"
    /\ HttpIdle
    /\ TextIdle
    /\ SessionIdle
    /\ HybridIdle
    /\ LoadIdle
    /\ DaemonIdle

NextCli ==
    \E p \in Procs :
        \/ LockExists(p)
        \/ LockRead(p)
        \/ LockProbe(p)
        \/ LockRemoveStale(p)
        \/ LockWrite(p)
        \/ CheckApi(p)
        \/ ResetRemove(p)
        \/ EngineStops(p)
        \/ EngineEnds(p)
        \/ ReleaseExists(p)
        \/ ReleaseRead(p)
        \/ ReleaseRemove(p)
        \/ StopWrite(p)
        \/ StopLockRemove(p)

SpecCli == InitCli /\ [][NextCli]_vars

-----------------------------------------------------------------------------
(* Properties of the lock file and the stop marker *)

\* Between a successful _acquire_lock and the end of the engine run.
InRecordingSection(p) == proc_pc[p] \in {"check_api", "reset_remove", "recording"}

\* C21: at most one process is inside the recording section of transcribe at
\* any time, whatever the interleaving of transcribe and stop_recording
\* commands.
C21_OneRecordingAtATime ==
    Cardinality({p \in Procs : InRecordingSection(p)}) <= 1

\* C22: a session that was recording when a stop command ran either has left
\* its engine run or still has the stop signal before it (the stop marker is
\* present or its stop flag is set), so that its next poll ends it by the
\* external-stop path.
C22_StopSignalKeptUntilObserved ==
    \A p \in stop_pending :
        proc_pc[p] = "recording" => (stop_file \/ proc_stop_flag[p])

-----------------------------------------------------------------------------
(* `voice_hybrid.py stop` run in a second process while a hybrid session   *)
(* captures audio. The session is in its primary engine run, which passes  *)
(* the session's own stop_flag to capture_streaming_audio; the capture     *)
(* loop polls that flag and /tmp/voice_transcription_stop.flag             *)
(* (stop_file). The second process is process 1 of proc_pc.                *)

\* HybridVoiceTranscriber.stop_recording in the second process: it writes
\* /tmp/voice_hybrid_stop.flag and sets the stop flag of its own instance.
HybridStopRecording ==
    /\ proc_pc = <<"idle">>
    /\ cap_pc \in {"start", "loop"}
    /\ hyb_stop_file' = TRUE
    /\ proc_stop_flag' = <<TRUE>>
    /\ proc_pc' = <<"done">>
    /\ proc_exit' = <<"stopped">>
    /\ UNCHANGED <<lock_file, old_pid, stop_pending>>
    /\ UNCHANGED <<hyb_pc, current_engine, hyb_api_key, whisper_available,
                   current_language, hyb_stop_flag, runs, notifications, hyb_result>>
    /\ UNCHANGED <<capVars, httpVars, txVars, sessVars, loadVars, daemonVars>>

\* The hybrid session at the call of capture_streaming_audio (transcribe has
\* selected ElevenLabs, reset its stop flag and removed its stop file); the
\* second process has not started.
InitHybridStop ==
    /\ cap_pc = "start"
    /\ frame_count = 0
    /\ all_frames = <<>>
    /\ phrase_frames = <<>>
    /\ silence_frames = 0
    /\ recording_started = FALSE
    /\ stop_flag = FALSE
    /\ stop_file = FALSE
    /\ callbacks = <<>>
    /\ exit_reason = "none"
    /\ read_errors = 0
    /\ stream = "none"
    /\ hyb_pc = "primary"
    /\ current_engine = "elevenlabs"
    /\ hyb_api_key = TRUE
    /\ whisper_available = TRUE
    /\ current_language = "auto"
    /\ hyb_stop_flag = FALSE
    /\ hyb_stop_file = FALSE
    /\ runs = <<>>
    /\ notifications = <<"recording_elevenlabs">>
    /\ hyb_result = "none"
    /\ proc_pc = <<"idle">>
    /\ lock_file = 0
    /\ proc_stop_flag = <<FALSE>>
    /\ old_pid = <<0>>
    /\ proc_exit = <<"none">>
    /\ stop_pending = {}
    /\ HttpIdle
    /\ TextIdle
    /\ SessionIdle
    /\ LoadIdle
    /\ DaemonIdle

NextHybridStop ==
    \/ NextCapture
    \/ HybridStopRecording

SpecHybridStop == InitHybridStop /\ [][NextHybridStop]_vars

\* C23: once the hybrid stop command has run while the session is capturing,
\* the capture loop reads no further frame: its next iteration observes the
\* stop signal and leaves the loop by the external-stop path.
C23_HybridStopEndsCapture ==
    [][(hyb_stop_file /\ cap_pc = "loop" /\ frame_count < max_frames)
         => /\ frame_count' = frame_count
            /\ cap_pc' = "loop" \/ exit_reason' \in {"stop_flag", "stop_file"}]_vars

-----------------------------------------------------------------------------
(* A hybrid session from the call of transcribe to the end of its capture: *)
(* transcribe resets its stop flag and removes its own stop file, then the *)
(* ElevenLabs engine calls capture_streaming_audio with that flag.         *)

\* engine.transcribe_streaming(self.audio_capture, ..., stop_flag=self.stop_flag):
\* the capture starts with the session's stop flag.
StartHybridCapture ==
    /\ hyb_pc = "primary"
    /\ current_engine = "elevenlabs"
    /\ cap_pc = "idle"
    /\ cap_pc' = "start"
    /\ stop_flag' = hyb_stop_flag
    /\ UNCHANGED <<frame_count, all_frames, phrase_frames, silence_frames,
                   recording_started, stop_file, callbacks, exit_reason,
                   read_errors, stream>>
    /\ UNCHANGED <<httpVars, txVars, sessVars, hybVars, loadVars, procVars, daemonVars>>

\* The call of transcribe with a key configured. The stop flag and the stop
\* file of the instance may be left from an earlier session, and
\* /tmp/voice_transcription_stop.flag may be left by an earlier
\* `voice_transcription.py stop`.
InitHybridSession ==
    /\ hyb_pc = "select"
    /\ current_engine = "none"
    /\ hyb_api_key = TRUE
    /\ whisper_available \in BOOLEAN
    /\ current_language = "auto"
    /\ hyb_stop_flag \in BOOLEAN
    /\ hyb_stop_file \in BOOLEAN
    /\ runs = <<>>
    /\ notifications = <<>>
    /\ hyb_result = "none"
    /\ cap_pc = "idle"
    /\ frame_count = 0
    /\ all_frames = <<>>
    /\ phrase_frames = <<>>
    /\ silence_frames = 0
    /\ recording_started = FALSE
    /\ stop_flag = FALSE
    /\ stop_file \in BOOLEAN
    /\ callbacks = <<>>
    /\ exit_reason = "none"
    /\ read_errors = 0
    /\ stream = "none"
    /\ HttpIdle
    /\ TextIdle
    /\ SessionIdle
    /\ LoadIdle
    /\ ProcIdle
    /\ DaemonIdle

NextHybridSession ==
    \/ BeginTranscribe
    \/ StartHybridCapture
    \/ NextCapture

SpecHybridSession == InitHybridSession /\ [][NextHybridSession]_vars

\* C32: when a session has done its reset and is about to capture, the stop
\* flag and the stop marker that the capture loop polls are both clear.
C32_StopStateClearedAtStart ==
    (hyb_pc = "primary" /\ cap_pc = "idle") => (~hyb_stop_flag /\ ~stop_file)

-----------------------------------------------------------------------------
(* Properties of the phrases handed over by capture_streaming_audio *)

\* The frames of the calls made so far, in order.
RECURSIVE EmittedFrames(_)
EmittedFrames(calls) ==
    IF calls = <<>> THEN <<>>
    ELSE EmittedFrames(SubSeq(calls, 1, Len(calls) - 1)) \o calls[Len(calls)].frames

\* C36: while the capture runs, the frames read so far are the phrases already
\* passed to the callback, in order, followed by the current phrase buffer;
\* when it has returned they are the phrases passed followed by the tail the
\* final flush did not pass.
C36_PhrasesPartitionFrames ==
    /\ cap_pc \in {"loop", "after_loop"}
          => all_frames = EmittedFrames(callbacks) \o phrase_frames
    /\ (cap_pc = "done" /\ exit_reason # "exception")
          => all_frames = EmittedFrames(callbacks) \o
                (IF callbacks # <<>> /\ callbacks[Len(callbacks)].path = "final"
                 THEN <<>> ELSE phrase_frames)

\* C36 witness: a returned capture that passed a phrase at a boundary, another
\* on the final flush, the two making up all the frames read.
C36_Witness ==
    /\ cap_pc = "done"
    /\ Len(callbacks) = 2
    /\ callbacks[1].path = "boundary"
    /\ callbacks[2].path = "final"
    /\ Len(callbacks[1].frames) + Len(callbacks[2].frames) = Len(all_frames)
    /\ read_errors > 0

\* C37: every phrase passed to the callback, at a boundary, on an external
\* stop or on the final flush, holds at least one speech frame.
C37_EveryPhraseHasSpeech ==
    \A i \in 1..Len(callbacks) :
        \E j \in 1..Len(callbacks[i].frames) : IsSpeech(callbacks[i].frames[j])

-----------------------------------------------------------------------------
(* VoiceTranscriptionDaemon: one 'transcribe' request and one 'stop' request,
   each handled by _handle_client on a thread of its own *)

dm_sample_rate == 16000

\* self.chunk_size: frame size in samples (one frame per second).
dm_chunk_size == 16000

\* _capture_and_transcribe_streaming(max_duration=...), in seconds.
dm_max_duration == 6

dm_silence_threshold == 50

\* int(self.sample_rate / self.chunk_size * 1.5)
dm_short_pause_frames == (dm_sample_rate * 3) \div (dm_chunk_size * 2)

\* int(self.sample_rate / self.chunk_size * 4.0)
dm_long_pause_frames == (dm_sample_rate * 4) \div dm_chunk_size

\* int(self.sample_rate / self.chunk_size * 2.0)
dm_min_phrase_frames == (dm_sample_rate * 2) \div dm_chunk_size

\* int(self.sample_rate / self.chunk_size * max_duration)
dm_max_frames == (dm_sample_rate * dm_max_duration) \div dm_chunk_size

\* RMS volumes a frame may have: at the threshold and just above it.
DaemonVolumes == {dm_silence_threshold, dm_silence_threshold + 1}

\* Texts the Whisper model may return for a phrase, joined and stripped.
WhisperTexts == { <<>>, <<"a">>, <<"b", " ", "c">> }

\* A response written to a client's socket.
Reply(status, text) == [status |-> status, text |-> text]

\* _transcribe_audio_chunk(frames) when the model answers `text`: "" for no
\* frames or less than 0.5 s of audio.
_transcribe_audio_chunk(frames, text) ==
    IF frames = <<>> THEN <<>>
    ELSE IF Len(frames) * dm_chunk_size * 2 < dm_sample_rate THEN <<>>
    ELSE text

\* `if phrase_text.strip(): full_text += phrase_text + " "` and the 'partial'
\* response carrying phrase_text.strip().
CommitPhrase(phrase_text) ==
    IF Strip(phrase_text) # <<>>
    THEN /\ dm_full_text' = dm_full_text \o phrase_text \o <<" ">>
         /\ dm_sent' = Append(dm_sent, Reply("partial", Strip(phrase_text)))
    ELSE UNCHANGED <<dm_full_text, dm_sent>>

notDaemon == <<capVars, httpVars, txVars, sessVars, hybVars, loadVars, procVars>>

captureLocals == <<dm_frame_count, dm_phrase_frames, dm_silence_frames, dm_started>>

stopThread == <<st_pc, st_sent>>

\* _handle_client, command 'transcribe': `self.recording_socket = client_socket`
HandleTranscribe ==
    /\ dm_pc = "none"
    /\ recording_socket' = TRUE
    /\ dm_pc' = "ack"
    /\ UNCHANGED <<stop_recording, captureLocals, dm_full_text, dm_raised, dm_sent>>
    /\ UNCHANGED <<stopThread, notDaemon>>

\* The acknowledgment {'status': 'recording'}.
SendRecordingAck ==
    /\ dm_pc = "ack"
    /\ dm_sent' = Append(dm_sent, Reply("recording", <<>>))
    /\ dm_pc' = "begin"
    /\ UNCHANGED <<recording_socket, stop_recording, captureLocals, dm_full_text, dm_raised>>
    /\ UNCHANGED <<stopThread, notDaemon>>

\* _capture_and_transcribe_streaming: `full_text = ""`,
\* `self.stop_recording = False`.
BeginDaemonCapture ==
    /\ dm_pc = "begin"
    /\ dm_full_text' = <<>>
    /\ stop_recording' = FALSE
    /\ dm_pc' = "open"
    /\ UNCHANGED <<recording_socket, captureLocals, dm_raised, dm_sent>>
    /\ UNCHANGED <<stopThread, notDaemon>>

\* pyaudio.PyAudio() and audio.open(...) succeed; the locals are initialised.
OpenMicrophone ==
    /\ dm_pc = "open"
    /\ dm_frame_count' = 0
    /\ dm_phrase_frames' = <<>>
    /\ dm_silence_frames' = 0
    /\ dm_started' = FALSE
    /\ dm_pc' = "loop"
    /\ UNCHANGED <<recording_socket, stop_recording, dm_full_text, dm_raised, dm_sent>>
    /\ UNCHANGED <<stopThread, notDaemon>>

\* pyaudio.PyAudio() or audio.open(...) raises: `except Exception`.
OpenMicrophoneRaises ==
    /\ dm_pc = "open"
    /\ dm_raised' = TRUE
    /\ dm_pc' = "finally"
    /\ UNCHANGED <<recording_socket, stop_recording, captureLocals, dm_full_text, dm_sent>>
    /\ UNCHANGED <<stopThread, notDaemon>>

\* range(max_frames) is exhausted.
DaemonLoopExhausted ==
    /\ dm_pc = "loop"
    /\ dm_frame_count = dm_max_frames
    /\ dm_pc' = "finally"
    /\ UNCHANGED <<recording_socket, stop_recording, captureLocals, dm_full_text,
                   dm_raised, dm_sent>>
    /\ UNCHANGED <<stopThread, notDaemon>>

\* `if self.stop_recording: break` at the top of an iteration.
DaemonStopBreak ==
    /\ dm_pc = "loop"
    /\ dm_frame_count < dm_max_frames
    /\ stop_recording
    /\ dm_pc' = "finally"
    /\ UNCHANGED <<recording_socket, stop_recording, captureLocals, dm_full_text,
                   dm_raised, dm_sent>>
    /\ UNCHANGED <<stopThread, notDaemon>>

\* The stop test passes and stream.read(self.chunk_size) starts.
DaemonStartRead ==
    /\ dm_pc = "loop"
    /\ dm_frame_count < dm_max_frames
    /\ ~stop_recording
    /\ dm_frame_count' = dm_frame_count + 1
    /\ dm_pc' = "read"
    /\ UNCHANGED <<recording_socket, stop_recording, dm_phrase_frames, dm_silence_frames,
                   dm_started, dm_full_text, dm_raised, dm_sent>>
    /\ UNCHANGED <<stopThread, notDaemon>>

\* stream.read raises: `except Exception`.
DaemonReadRaises ==
    /\ dm_pc = "read"
    /\ dm_raised' = TRUE
    /\ dm_pc' = "finally"
    /\ UNCHANGED <<recording_socket, stop_recording, captureLocals, dm_full_text, dm_sent>>
    /\ UNCHANGED <<stopThread, notDaemon>>

\* The read returns a frame: it is appended and classified.
DaemonReadFrame(data) ==
    /\ dm_pc = "read"
    /\ dm_phrase_frames' = Append(dm_phrase_frames, data)
    /\ IF data > dm_silence_threshold
       THEN /\ dm_started' = TRUE
            /\ dm_silence_frames' = 0
            /\ dm_pc' = "loop"
       ELSE IF dm_started
       THEN /\ dm_silence_frames' = dm_silence_frames + 1
            /\ UNCHANGED dm_started
            /\ dm_pc' = IF /\ dm_silence_frames' = dm_short_pause_frames
                           /\ Len(dm_phrase_frames') >= dm_min_phrase_frames
                        THEN "boundary"
                        ELSE IF dm_silence_frames' > dm_long_pause_frames
                        THEN "finally"
                        ELSE "loop"
       ELSE /\ UNCHANGED <<dm_started, dm_silence_frames>>
            /\ dm_pc' = "loop"
    /\ UNCHANGED <<recording_socket, stop_recording, dm_frame_count, dm_full_text,
                   dm_raised, dm_sent>>
    /\ UNCHANGED <<stopThread, notDaemon>>

\* At a phrase boundary: `if self.stop_recording: break`
DaemonBoundaryStop ==
    /\ dm_pc = "boundary"
    /\ stop_recording
    /\ dm_pc' = "finally"
    /\ UNCHANGED <<recording_socket, stop_recording, captureLocals, dm_full_text,
                   dm_raised, dm_sent>>
    /\ UNCHANGED <<stopThread, notDaemon>>

\* At a phrase boundary: the phrase is transcribed, a non-blank text is
\* committed and sent as 'partial', and the phrase buffer is emptied.
DaemonBoundaryTranscribe(text) ==
    /\ dm_pc = "boundary"
    /\ ~stop_recording
    /\ CommitPhrase(_transcribe_audio_chunk(dm_phrase_frames, text))
    /\ dm_phrase_frames' = <<>>
    /\ dm_pc' = "loop"
    /\ UNCHANGED <<recording_socket, stop_recording, dm_frame_count, dm_silence_frames,
                   dm_started, dm_raised>>
    /\ UNCHANGED <<stopThread, notDaemon>>

\* `finally`: stream.stop_stream(), stream.close(), audio.terminate(); after
\* an exception the function has returned "".
DaemonFinally ==
    /\ dm_pc = "finally"
    /\ dm_pc' = IF dm_raised THEN "completed" ELSE "flush"
    /\ UNCHANGED <<recording_socket, stop_recording, captureLocals, dm_full_text,
                   dm_raised, dm_sent>>
    /\ UNCHANGED <<stopThread, notDaemon>>

\* A call of the `finally` block raises: the exception leaves
\* _capture_and_transcribe_streaming and _transcribe_speech_streaming answers
\* {'status': 'error'}.
DaemonFinallyRaises ==
    /\ dm_pc = "finally"
    /\ dm_sent' = Append(dm_sent, Reply("error", <<>>))
    /\ dm_pc' = "clear"
    /\ UNCHANGED <<recording_socket, stop_recording, captureLocals, dm_full_text, dm_raised>>
    /\ UNCHANGED <<stopThread, notDaemon>>

\* "Process any remaining phrase audio only if recording wasn't manually
\* stopped".
DaemonFinalFlush(text) ==
    /\ dm_pc = "flush"
    /\ IF /\ dm_phrase_frames # <<>>
          /\ dm_started
          /\ Len(dm_phrase_frames) >= dm_min_phrase_frames
          /\ ~stop_recording
       THEN CommitPhrase(_transcribe_audio_chunk(dm_phrase_frames, text))
       ELSE /\ text = <<>>
            /\ UNCHANGED <<dm_full_text, dm_sent>>
    /\ dm_pc' = "reset"
    /\ UNCHANGED <<recording_socket, stop_recording, captureLocals, dm_raised>>
    /\ UNCHANGED <<stopThread, notDaemon>>

\* `self.stop_recording = False`, `return full_text.strip()`
DaemonResetStop ==
    /\ dm_pc = "reset"
    /\ stop_recording' = FALSE
    /\ dm_pc' = "completed"
    /\ UNCHANGED <<recording_socket, captureLocals, dm_full_text, dm_raised, dm_sent>>
    /\ UNCHANGED <<stopThread, notDaemon>>

\* final_text as _capture_and_transcribe_streaming returned it.
final_text == IF dm_raised THEN <<>> ELSE Strip(dm_full_text)

\* The response {'status': 'completed', 'text': final_text}.
SendCompleted ==
    /\ dm_pc = "completed"
    /\ dm_sent' = Append(dm_sent, Reply("completed", final_text))
    /\ dm_pc' = "clear"
    /\ UNCHANGED <<recording_socket, stop_recording, captureLocals, dm_full_text, dm_raised>>
    /\ UNCHANGED <<stopThread, notDaemon>>

\* `self.recording_socket = None`, then client_socket.close().
ClearRecordingSocket ==
    /\ dm_pc = "clear"
    /\ recording_socket' = FALSE
    /\ dm_pc' = "closed"
    /\ UNCHANGED <<stop_recording, captureLocals, dm_full_text, dm_raised, dm_sent>>
    /\ UNCHANGED <<stopThread, notDaemon>>

recordingThread == <<dm_pc, recording_socket, captureLocals, dm_full_text, dm_raised, dm_sent>>

\* _handle_client, command 'stop', `if self.recording_socket:` finds a socket.
StopFindsRecording ==
    /\ st_pc = "none"
    /\ recording_socket
    /\ st_pc' = "set"
    /\ UNCHANGED <<st_sent, stop_recording>>
    /\ UNCHANGED <<recordingThread, notDaemon>>

\* command 'stop' with no recording socket: {'status': 'not_recording'}.
StopNotRecording ==
    /\ st_pc = "none"
    /\ ~recording_socket
    /\ st_sent' = Append(st_sent, Reply("not_recording", <<>>))
    /\ st_pc' = "closed"
    /\ UNCHANGED stop_recording
    /\ UNCHANGED <<recordingThread, notDaemon>>

\* `self.stop_recording = True`
StopSetsFlag ==
    /\ st_pc = "set"
    /\ stop_recording' = TRUE
    /\ st_pc' = "reply"
    /\ UNCHANGED st_sent
    /\ UNCHANGED <<recordingThread, notDaemon>>

\* The response {'status': 'stopped'}.
StopReplies ==
    /\ st_pc = "reply"
    /\ st_sent' = Append(st_sent, Reply("stopped", <<>>))
    /\ st_pc' = "closed"
    /\ UNCHANGED stop_recording
    /\ UNCHANGED <<recordingThread, notDaemon>>

\* The daemon after start(): model loaded, socket listening, no request yet.
InitDaemon ==
    /\ DaemonIdle
    /\ CaptureIdle
    /\ HttpIdle
    /\ TextIdle
    /\ SessionIdle
    /\ HybridIdle
    /\ LoadIdle
    /\ ProcIdle

NextDaemon ==
    \/ HandleTranscribe
    \/ SendRecordingAck
    \/ BeginDaemonCapture
    \/ OpenMicrophone
    \/ OpenMicrophoneRaises
    \/ DaemonLoopExhausted
    \/ DaemonStopBreak
    \/ DaemonStartRead
    \/ DaemonReadRaises
    \/ \E data \in DaemonVolumes : DaemonReadFrame(data)
    \/ DaemonBoundaryStop
    \/ \E text \in WhisperTexts : DaemonBoundaryTranscribe(text)
    \/ DaemonFinally
    \/ DaemonFinallyRaises
    \/ \E text \in WhisperTexts : DaemonFinalFlush(text)
    \/ DaemonResetStop
    \/ SendCompleted
    \/ ClearRecordingSocket
    \/ StopFindsRecording
    \/ StopNotRecording
    \/ StopSetsFlag
    \/ StopReplies

SpecDaemon == InitDaemon /\ [][NextDaemon]_vars

-----------------------------------------------------------------------------
(* Properties of the daemon *)

\* The 'stop' request has been answered 'stopped'.
StoppedAnswered ==
    \E i \in 1..Len(st_sent) : st_sent[i].status = "stopped"

\* C39: once 'stop' has been answered 'stopped', the recording loop of the
\* active session starts no further read, under every interleaving of the
\* two handler threads; and a 'stop' that finds no recording session is
\* answered 'not_recording' and leaves the stop flag as it was.
C39_StoppedEndsRecording ==
    /\ [][(StoppedAnswered /\ dm_pc = "loop") => dm_pc' # "read"]_vars
    /\ [][(st_pc = "none" /\ st_pc' # "none" /\ ~recording_socket)
            => /\ st_sent' = <<Reply("not_recording", <<>>)>>
               /\ stop_recording' = stop_recording]_vars

TerminalStatus == {"completed", "error"}

\* The texts of the 'partial' responses among msgs, in order.
RECURSIVE PartialTexts(_)
PartialTexts(msgs) ==
    IF msgs = <<>> THEN <<>>
    ELSE IF Head(msgs).status = "partial"
    THEN <<Head(msgs).text>> \o PartialTexts(Tail(msgs))
    ELSE PartialTexts(Tail(msgs))

\* C40: the responses to a 'transcribe' request are one 'recording', then
\* 'partial' responses, then one 'completed' or 'error' and nothing after it;
\* the text of 'completed' is the texts of the 'partial' responses joined by
\* single spaces.
C40_ResponseProtocol ==
    /\ dm_sent # <<>> => dm_sent[1].status = "recording"
    /\ \A i \in 2..Len(dm_sent) : dm_sent[i].status # "recording"
    /\ \A i \in 1..(Len(dm_sent) - 1) : dm_sent[i].status \notin TerminalStatus
    /\ dm_pc = "closed" => dm_sent[Len(dm_sent)].status \in TerminalStatus
    /\ \A i \in 1..Len(dm_sent) :
          dm_sent[i].status = "completed"
             => dm_sent[i].text = JoinSpace(PartialTexts(dm_sent))

=============================================================================
